---- MODULE Spec2Model ----
(***************************************************************************)
(* WW3-tools: collocation of WAVEWATCH III output with buoys               *)
(* (validation/modelBuoy_collocation.py) and with gridded altimeter data   *)
(* (ww3tools/modelSat_collocation.py).                                     *)
(*                                                                         *)
(* Conventions of the model.                                               *)
(*  - Floating point values are integers (degrees, metres, seconds); the   *)
(*    input sets are chosen so that every mean the code takes is integral. *)
(*  - np.nan is the value NaN; the comparison operators below are false   *)
(*    on NaN, as IEEE comparisons are.                                     *)
(*  - Arrays are sequences, so index k of the model is index k-1 of numpy. *)
(*  - An uncaught Python exception is pc = "crash", sys.exit is            *)
(*    pc = "exit", the normal end of a script is pc = "done".              *)
(***************************************************************************)
EXTENDS Integers, Sequences, FiniteSets, TLC

VARIABLES
    prog,       \* which script runs: "buoy", "sat" or "prepGridMask"
    pc,         \* position in the script
    \* GridDomain (gridinfo file)
    mlat, mlon, mask, distcoast, depth,
    \* nearest-point lookup: the position looked up and the indexes found
    qlat, qlon, indgplat, indgplon,
    \* model files: the input list, the number of files the loop has gone
    \* through (t of the buoy script, i of the satellite script), and in the
    \* buoy script the station names and the aggregated series
    wlist, t, stname, mtime, mhs, mtm, mdm,
    \* buoy script: loop index, the buoy files read so far, the matched
    \* buoy series and the station positions
    b, bfile, bhs, btm, bdm, lat, lon,
    \* satellite script: the satellite samples, the record count and the
    \* candidate records
    stime, shs, swnd, slat, slon, c, f,
    \* CycloneRaster (cyclonemap file): slice times and codes per slice and
    \* cell; the cyclone codes of the buoy script's output; the number of
    \* forecast cycles the satellite script reserves records for
    ctime, cmap, fcmap, forecastds,
    \* region ids of the gridinfo file, grid of the cyclone map
    oni, hsmz, clat, clon,
    \* prepGridMask: interpolated bathymetry and coast distance, model map
    ib, idfc, mapsta,
    \* satellite files: the input list, the number of files the read loop
    \* has gone through, and the mission ids
    slist, sfile, sid,
    \* the netCDF output file: Unset until it is written
    ncfile,
    \* history: the (model time, observation) pairs the matching loops used
    used

gridVars == <<mlat, mlon, mask, distcoast, depth>>
lookVars == <<qlat, qlon, indgplat, indgplon>>
readVars == <<wlist, t, stname, mtime, mhs, mtm, mdm>>
buoyVars == <<b, bfile, bhs, btm, bdm, lat, lon>>
satVars == <<stime, shs, swnd, slat, slon, c, f>>
cycVars == <<ctime, cmap, fcmap, forecastds>>
auxVars == <<oni, hsmz, clat, clon, ib, idfc, mapsta, slist, sfile, sid>>
vars == <<prog, pc, gridVars, lookVars, readVars, buoyVars, satVars, cycVars,
          auxVars, ncfile, used>>

\* The value of a variable the running script never assigns.
Unset == <<>>

----------------------------------------------------------------------------
(* Values *)

NaN == -99999

IsNaN(x) == x = NaN
Num(x) == x # NaN
GT(x, y) == Num(x) /\ x > y
LT(x, y) == Num(x) /\ x < y

Abs(x) == IF x < 0 THEN -x ELSE x

SeqsUpTo(S, n) == UNION {[1..k -> S] : k \in 1..n}

----------------------------------------------------------------------------
(* Nearest grid point *)

\* abs(grid-q).min()
MinAbs(grid, q) ==
    CHOOSE d \in {Abs(grid[i] - q) : i \in 1..Len(grid)} :
        \A i \in 1..Len(grid) : d <= Abs(grid[i] - q)

\* A lookup that returns the last index achieving the minimum.
NearestIndexLast(grid, q) ==
    LET hits == {i \in 1..Len(grid) : Abs(grid[i] - q) = MinAbs(grid, q)}
    IN  IF hits = {} THEN 0 ELSE CHOOSE i \in hits : \A j \in hits : j <= i

\* A lookup that returns the first grid node not below the query.
NearestIndexCeil(grid, q) ==
    LET hits == {i \in 1..Len(grid) : grid[i] >= q}
    IN  IF hits = {} THEN Len(grid) ELSE CHOOSE i \in hits : \A j \in hits : i <= j

\* np.where( abs(grid-q)==abs(grid-q).min() )[0][0]; 0 stands for the
\* IndexError of an empty np.where result.
NearestIndex(grid, q) ==
    LET hits == {i \in 1..Len(grid) : Abs(grid[i] - q) = MinAbs(grid, q)}
    IN  IF hits = {} THEN 0 ELSE CHOOSE i \in hits : \A j \in hits : i <= j

\* alon[alon<0]=alon[alon<0]+360.
To360(x) == IF x < 0 THEN x + 360 ELSE x

\* No conversion.
ToSignedOff(x) == x

\* A conversion that takes half a turn off every value above 90.
ToSignedHalfTurn(x) == IF x > 90 THEN x - 180 ELSE x

\* x[x>180.]=x[x>180.]-360.
ToSigned(x) == IF x > 180 THEN x - 360 ELSE x

\* mlon as the satellite script holds it after reading the grid: converted
\* to the signed convention when some node is above 180.
SatGridLon(g) ==
    IF \E i \in 1..Len(g) : g[i] > 180
    THEN [i \in 1..Len(g) |-> ToSigned(g[i])]
    ELSE g

----------------------------------------------------------------------------
(* Arrays *)

\* arr[ind]: the elements of arr at the indexes ind, in the order of ind.
Pick(arr, ind) == [k \in 1..Len(ind) |-> arr[ind[k]]]

\* np.where(...)[0] over an array of n elements: the indexes that satisfy
\* Test, ascending.
Where(n, Test(_)) == SelectSeq([k \in 1..n |-> k], Test)

\* np.isnan(np.nanmean(row)): the mean over the non-NaN elements is NaN
\* when there is none.
NanMeanIsNaN(row) == \A k \in 1..Len(row) : IsNaN(row[k])

----------------------------------------------------------------------------
(* Buoy script: the loop that reads the model files *)

\* An aggregation that puts the columns of the new file first.
AppendColumnsFront(x, y) == [s \in 1..Len(x) |-> y[s] \o x[s]]

\* np.append(x, y, axis=1): the columns of y after the columns of x.
AppendColumns(x, y) == [s \in 1..Len(x) |-> x[s] \o y[s]]

\* An array of the given shape filled with np.nan.
NaNArray(n, m) == [s \in 1..n |-> [k \in 1..m |-> NaN]]

\* One pass of "for t in range(0,size(wlist))": a file that cannot be
\* opened is reported and skipped; the first file of the list (t==0)
\* names the stations and starts the series, every other file is appended
\* to the series, which raises NameError when the series was never
\* started.  With a list of one line wlist[t] is a 0-d array of loadtxt,
\* and the report " Cannot open "+wlist[t] raises TypeError.
ReadModelFile ==
    /\ prog = "buoy" /\ pc = "model" /\ t < Len(wlist)
    /\ t' = t + 1
    /\ LET file == wlist[t + 1]
       IN  IF ~file.ok
           THEN /\ pc' = IF Len(wlist) = 1 THEN "crash" ELSE pc
                /\ UNCHANGED <<stname, mtime, mhs, mtm, mdm>>
           ELSE /\ stname' = IF t = 0 THEN file.station_name ELSE stname
                /\ IF t = 0
                   THEN /\ mhs' = file.hs /\ mtm' = file.tr
                        /\ mdm' = file.th1m /\ mtime' = file.time
                        /\ pc' = pc
                   ELSE IF mhs = Unset
                   THEN /\ pc' = "crash"
                        /\ UNCHANGED <<mtime, mhs, mtm, mdm>>
                   ELSE /\ mhs' = AppendColumns(mhs, file.hs)
                        /\ mtm' = AppendColumns(mtm, file.tr)
                        /\ mdm' = AppendColumns(mdm, file.th1m)
                        /\ mtime' = mtime \o file.time
                        /\ pc' = pc
    /\ UNCHANGED <<prog, gridVars, lookVars, wlist, buoyVars, satVars, ncfile, used>>
    /\ UNCHANGED cycVars
    /\ UNCHANGED auxVars

\* After the loop: the buoy arrays are allocated from stname and mtime,
\* which raises NameError when no file defined them.
StartBuoys ==
    /\ prog = "buoy" /\ pc = "model" /\ t = Len(wlist)
    /\ IF stname = Unset \/ mtime = Unset
       THEN /\ pc' = "crash"
            /\ UNCHANGED <<bhs, btm, bdm, lat, lon>>
       ELSE /\ bhs' = NaNArray(Len(stname), Len(mtime))
            /\ btm' = NaNArray(Len(stname), Len(mtime))
            /\ bdm' = NaNArray(Len(stname), Len(mtime))
            /\ lat' = [s \in 1..Len(stname) |-> NaN]
            /\ lon' = [s \in 1..Len(stname) |-> NaN]
            /\ pc' = "buoys"
    /\ b' = 0 /\ bfile' = <<>>
    /\ UNCHANGED <<prog, gridVars, lookVars, readVars, satVars, ncfile, used>>
    /\ UNCHANGED cycVars
    /\ UNCHANGED auxVars


----------------------------------------------------------------------------
(* Time matching *)

TimeTol == 1800

\* A window that includes a difference of exactly the tolerance.
InWindowInclusive(x, y) == Abs(x - y) <= TimeTol

\* np.abs(x-y)<1800.
InWindow(x, y) == Abs(x - y) < TimeTol

\* A search that leaves out the observations at or after the model time.
WindowIndexesBefore(times, x) ==
    Where(Len(times), LAMBDA k : InWindow(times[k], x) /\ times[k] < x)

\* np.where(np.abs(times-x)<1800.)[0]
WindowIndexes(times, x) == Where(Len(times), LAMBDA k : InWindow(times[k], x))

RECURSIVE SumSeq(_)
SumSeq(q) == IF q = <<>> THEN 0 ELSE Head(q) + SumSeq(Tail(q))

\* np.nanmean: the mean of the elements that are not NaN, NaN when there
\* is none.  The input sets keep every mean integral.
NanMean(q) ==
    LET nums == SelectSeq(q, Num)
    IN  IF nums = <<>> THEN NaN ELSE SumSeq(nums) \div Len(nums)

----------------------------------------------------------------------------
(* Buoy script: the loop over the buoys *)

\* One row of bhs, btm or bdm: for every model time the mean of the buoy
\* values within the window, NaN where the window is empty.
MatchRow(atime, vals) ==
    [k \in 1..Len(mtime) |->
        LET indt == WindowIndexes(atime, mtime[k])
        IN  IF Len(indt) > 0 THEN NanMean(Pick(vals, indt)) ELSE NaN]

\* The (station, model time index, buoy sample index) triples of indt.
MatchPairs(s, atime) ==
    {u \in {s} \X (1..Len(mtime)) \X (1..Len(atime)) :
        InWindow(atime[u[3]], mtime[u[2]])}

Replace(arr, s, row) == [arr EXCEPT ![s] = row]

\* One pass of "for b in range(0,size(stname))" over the NDBC file ndbc
\* and the Copernicus file copern of the station.  The time matching is
\* the else clause of the outer try: it runs when the NDBC file was read.
\* When the NDBC file fails, the Copernicus file is read (series and
\* position) and the pass ends.
ReadBuoy(ndbc, copern) ==
    /\ prog = "buoy" /\ pc = "buoys" /\ b < Len(stname)
    /\ b' = b + 1
    /\ bfile' = Append(bfile, [ndbc |-> ndbc, copern |-> copern])
    /\ IF ndbc.ok
       THEN /\ lat' = Replace(lat, b', ndbc.latitude)
            /\ lon' = Replace(lon, b', ndbc.longitude)
            /\ IF Len(ndbc.hs) > 0
               THEN /\ bhs' = Replace(bhs, b', MatchRow(ndbc.time, ndbc.hs))
                    /\ btm' = Replace(btm, b', MatchRow(ndbc.time, ndbc.tm))
                    /\ bdm' = Replace(bdm, b', MatchRow(ndbc.time, ndbc.dm))
                    /\ used' = used \cup MatchPairs(b', ndbc.time)
               ELSE UNCHANGED <<bhs, btm, bdm, used>>
       ELSE /\ IF copern.ok
               THEN /\ lat' = Replace(lat, b', copern.latitude)
                    /\ lon' = Replace(lon, b', copern.longitude)
               ELSE UNCHANGED <<lat, lon>>
            /\ UNCHANGED <<bhs, btm, bdm, used>>
    /\ pc' = IF b' = Len(stname) THEN "qc" ELSE "buoys"
    /\ UNCHANGED <<prog, gridVars, lookVars, readVars, satVars, ncfile>>
    /\ UNCHANGED cycVars
    /\ UNCHANGED auxVars

----------------------------------------------------------------------------
(* Buoy script: quality control, selection of stations, output *)

HsMin == 0
HsMax == 30
TmMin == 0
TmMax == 40
DmMin == -180
DmMax == 360

\* A range check that also rejects the upper limit itself.
QCRangeStrict(x, lo, hi) == IF (Num(x) /\ x >= hi) \/ LT(x, lo) THEN NaN ELSE x

\* A filter that also fills the missing elements with the lower limit.
QCRangeFill(x, lo, hi) ==
    IF IsNaN(x) THEN lo ELSE IF GT(x, hi) \/ LT(x, lo) THEN NaN ELSE x

\* ind=np.where((x>hi)|(x<lo)); x[ind]=np.nan, for one element.
QCRange(x, lo, hi) == IF GT(x, hi) \/ LT(x, lo) THEN NaN ELSE x

\* A quality control that drops the failing elements from their rows.
QCArrayDrop(arr, lo, hi) ==
    [s \in 1..Len(arr) |-> SelectSeq(arr[s], LAMBDA x : QCRange(x, lo, hi) = x)]

QCArray(arr, lo, hi) ==
    [s \in 1..Len(arr) |-> [k \in 1..Len(arr[s]) |-> QCRange(arr[s][k], lo, hi)]]

QualityControl ==
    /\ prog = "buoy" /\ pc = "qc"
    /\ bhs' = QCArray(bhs, HsMin, HsMax)
    /\ btm' = QCArray(btm, TmMin, TmMax)
    /\ bdm' = QCArray(bdm, DmMin, DmMax)
    /\ mhs' = QCArray(mhs, HsMin, HsMax)
    /\ mtm' = QCArray(mtm, TmMin, TmMax)
    /\ mdm' = QCArray(mdm, DmMin, DmMax)
    /\ pc' = "clean"
    /\ UNCHANGED <<prog, gridVars, lookVars, wlist, t, stname, mtime>>
    /\ UNCHANGED <<b, bfile, lat, lon, satVars, ncfile, used>>
    /\ UNCHANGED cycVars
    /\ UNCHANGED auxVars

\* A selection that keeps every station.
KeepStationAll(s) == TRUE

\* The test of the station selection: position known, and at least one
\* model height and one buoy height that are not NaN.
KeepStation(s) ==
    /\ ~IsNaN(lat[s]) /\ ~IsNaN(lon[s])
    /\ ~NanMeanIsNaN(mhs[s]) /\ ~NanMeanIsNaN(bhs[s])

CleanData ==
    /\ prog = "buoy" /\ pc = "clean"
    /\ LET ind == Where(Len(lat), KeepStation)
       IN  IF Len(ind) > 0
           THEN /\ stname' = Pick(stname, ind)
                /\ lat' = Pick(lat, ind)
                /\ lon' = Pick(lon, ind)
                /\ mhs' = Pick(mhs, ind)
                /\ mtm' = Pick(mtm, ind)
                /\ mdm' = Pick(mdm, ind)
                /\ bhs' = Pick(bhs, ind)
                /\ btm' = Pick(btm, ind)
                /\ bdm' = Pick(bdm, ind)
                /\ pc' = "save"
           ELSE /\ pc' = "exit"
                /\ UNCHANGED <<stname, lat, lon, mhs, mtm, mdm, bhs, btm, bdm>>
    /\ UNCHANGED <<prog, gridVars, lookVars, wlist, t, mtime>>
    /\ UNCHANGED <<b, bfile, satVars, ncfile, used>>
    /\ UNCHANGED cycVars
    /\ UNCHANGED auxVars

CycTol == 5400

\* np.where(np.abs(ctime-x)<5400.)[0]
CycloneIndexes(x) == Where(Len(ctime), LAMBDA k : Abs(ctime[k] - x) < CycTol)

\* A search that returns the qualifying slice nearest in time first.
CycloneSliceNearest(x) ==
    LET indt == CycloneIndexes(x)
    IN  IF Len(indt) = 0 THEN 0
        ELSE CHOOSE k \in {indt[i] : i \in 1..Len(indt)} :
                \A i \in 1..Len(indt) :
                   Abs(ctime[k] - x) <= Abs(ctime[indt[i]] - x)

\* indt[0][0]: the first slice of the raster within the tolerance of model
\* time x; 0 when there is none.
CycloneSlice(x) ==
    LET indt == CycloneIndexes(x)
    IN  IF Len(indt) = 0 THEN 0 ELSE indt[1]

\* The code of the cyclone map at a model time and a grid cell: that of
\* the slice found, np.nan when no slice was found.
CycloneCode(x, ilat, ilon) ==
    IF CycloneSlice(x) = 0 THEN NaN ELSE cmap[CycloneSlice(x)][ilat][ilon]

\* ind=np.where(fcmap<0); fcmap[ind]=np.nan, for one element.
NoNegative(x) == IF LT(x, 0) THEN NaN ELSE x

\* The grid indexes of the position of station s, looked up with the
\* longitude in the 0-360 convention.
StationLatIndex(s) == NearestIndex(mlat, lat[s])
StationLonIndex(s) == NearestIndex(mlon, To360(lon[s]))

\* A selection that looks at the depth only.
OnGridDepthOnly(s) ==
    ~IsNaN(depth[StationLatIndex(s)][StationLonIndex(s)])

\* The test of the selection after the grid lookup: coast distance and
\* depth of the cell of the station are not NaN.
OnGrid(s) ==
    /\ ~IsNaN(distcoast[StationLatIndex(s)][StationLonIndex(s)])
    /\ ~IsNaN(depth[StationLatIndex(s)][StationLonIndex(s)])

\* The rest of the buoy script.  With a gridinfo file (mlat is set) the
\* stations are looked up on the grid and those on a cell without coast
\* distance or depth are removed, which ends the run when none is left;
\* with a cyclone map (ctime is set) every station and model time gets the
\* code of the cyclone map, negative codes replaced by NaN.  The selection
\* is not applied to indgplat and indgplon: row k of fcmap is sampled with
\* element k of the indexes of all stations.  Then the longitudes are
\* converted and the output file is written.
SaveBuoy ==
    /\ prog = "buoy" /\ pc = "save"
    /\ LET ind == IF mlat = Unset THEN [s \in 1..Len(lat) |-> s]
                  ELSE Where(Len(lat), OnGrid)
       IN  IF Len(ind) = 0
           THEN /\ pc' = "exit"
                /\ UNCHANGED <<stname, lat, lon, mhs, mtm, mdm, bhs, btm, bdm>>
                /\ UNCHANGED <<fcmap, ncfile>>
           ELSE /\ stname' = Pick(stname, ind)
                /\ lat' = Pick(lat, ind)
                /\ lon' = [k \in 1..Len(ind) |-> ToSigned(lon[ind[k]])]
                /\ mhs' = Pick(mhs, ind)
                /\ mtm' = Pick(mtm, ind)
                /\ mdm' = Pick(mdm, ind)
                /\ bhs' = Pick(bhs, ind)
                /\ btm' = Pick(btm, ind)
                /\ bdm' = Pick(bdm, ind)
                /\ fcmap' =
                      IF ctime = Unset THEN fcmap
                      ELSE [k \in 1..Len(ind) |-> [n \in 1..Len(mtime) |->
                              NoNegative(CycloneCode(mtime[n],
                                  StationLatIndex(k), StationLonIndex(k)))]]
                /\ ncfile' =
                      [time |-> mtime, buoyID |-> stname',
                       latitude |-> lat', longitude |-> lon',
                       model_hs |-> mhs', model_tm |-> mtm', model_dm |-> mdm',
                       obs_hs |-> bhs', obs_tm |-> btm', obs_dm |-> bdm',
                       distcoast |-> IF mlat = Unset THEN Unset
                           ELSE [k \in 1..Len(ind) |->
                                   distcoast[StationLatIndex(ind[k])][StationLonIndex(ind[k])]],
                       depth |-> IF mlat = Unset THEN Unset
                           ELSE [k \in 1..Len(ind) |->
                                   depth[StationLatIndex(ind[k])][StationLonIndex(ind[k])]],
                       GlobalOceansSeas |-> IF mlat = Unset THEN Unset
                           ELSE [k \in 1..Len(ind) |->
                                   oni[StationLatIndex(ind[k])][StationLonIndex(ind[k])]],
                       HighSeasMarineZones |-> IF mlat = Unset THEN Unset
                           ELSE [k \in 1..Len(ind) |->
                                   hsmz[StationLatIndex(ind[k])][StationLonIndex(ind[k])]],
                       cyclone |-> fcmap']
                /\ pc' = "done"
    /\ UNCHANGED <<prog, gridVars, lookVars, wlist, t, mtime>>
    /\ UNCHANGED <<b, bfile, satVars, used>>
    /\ UNCHANGED <<ctime, cmap, forecastds>>
    /\ UNCHANGED auxVars

----------------------------------------------------------------------------
(* Satellite script: the loop over the model files *)

RECURSIVE SortedSeq(_)
SortedSeq(S) ==
    IF S = {} THEN <<>>
    ELSE LET m == CHOOSE x \in S : \A y \in S : x <= y
         IN  <<m>> \o SortedSeq(S \ {m})

Range(q) == {q[k] : k \in 1..Len(q)}

FirstIndex(q, v) == CHOOSE k \in 1..Len(q) : q[k] = v /\ \A j \in 1..(k - 1) : q[j] # v

\* A matching that goes through the satellite samples in their order and
\* takes the model time of each.
Intersect1dBySample(wtime) ==
    LET hits == SelectSeq(stime, LAMBDA x : x \in Range(wtime))
    IN  [k \in 1..Len(hits) |-> FirstIndex(wtime, hits[k])]

\* np.intersect1d(wtime, stime, return_indices=True)[1]: for every value
\* that wtime and stime share, ascending, its first index in wtime.
Intersect1dIndexes(wtime) ==
    LET common == SortedSeq(Range(wtime) \cap Range(stime))
    IN  [k \in 1..Len(common) |-> FirstIndex(wtime, common[k])]

\* wlon[wlon>180.] = wlon[wlon>180.]-360.
NormalizedLon(g) == [k \in 1..Len(g) |-> ToSigned(g[k])]

\* "np.array_equal(wlat,mlat)==False | np.array_equal(wlon,mlon)==False":
\* | binds tighter than ==, so Python evaluates the chain
\* A == (False | B) == False with A, B the two array_equal results, that
\* is (A == B) and (B == False).
GridMismatch(wlat, wlon) ==
    LET eqlat == (wlat = mlat)
        eqlon == (wlon = mlon)
    IN  (eqlat = eqlon) /\ (eqlon = FALSE)

\* A candidate record that was never written: the preallocated np.nan.
\* fcycle exists in forecast mode only and is NaN otherwise.
EmptyRecord ==
    [fwhs |-> NaN, fwwnd |-> NaN, fshs |-> NaN, fswnd |-> NaN,
     flat |-> NaN, flon |-> NaN, ftime |-> NaN, fcmap |-> NaN, fcycle |-> NaN,
     fsid |-> NaN]

MinOf(q) == CHOOSE x \in Range(q) : \A y \in Range(q) : x <= y
MaxOf(q) == CHOOSE x \in Range(q) : \A y \in Range(q) : x >= y

\* A cycle time taken from the end of the file.
CycleOfLast(file) == MaxOf(file.time)

\* fcycle[c]=np.double(np.nanmin(wtime))
CycleOf(file) == MinOf(file.time)

\* A test that does not look at the mask.
CellValidNoMask(ilat, ilon) ==
    /\ GT(distcoast[ilat][ilon], 0)
    /\ GT(depth[ilat][ilon], 0)

\* The test that lets a satellite sample at a grid cell become a record.
CellValid(ilat, ilon) ==
    /\ mask[ilat][ilon] = 1
    /\ GT(distcoast[ilat][ilon], 0)
    /\ GT(depth[ilat][ilon], 0)

\* The candidate record of satellite sample j at time index idx of file.
Candidate(file, idx, j) ==
    LET ilat == NearestIndex(mlat, slat[j])
        ilon == NearestIndex(mlon, slon[j])
    IN  [fwhs |-> file.hs[idx][ilat][ilon], fwwnd |-> file.wnd[idx][ilat][ilon],
         fshs |-> shs[j], fswnd |-> swnd[j], fsid |-> sid[j],
         flat |-> mlat[ilat], flon |-> mlon[ilon],
         ftime |-> file.time[idx],
         fcmap |-> CycloneCode(file.time[idx], ilat, ilon),
         fcycle |-> IF forecastds > 0 THEN CycleOf(file) ELSE NaN]

\* The records of one model time step, in the order of the samples.
RecordsAt(file, idx) ==
    LET inds == WindowIndexes(stime, file.time[idx])
        kept == SelectSeq(inds, LAMBDA j :
                    CellValid(NearestIndex(mlat, slat[j]), NearestIndex(mlon, slon[j])))
    IN  [k \in 1..Len(kept) |-> Candidate(file, idx, kept[k])]

RECURSIVE RecordsOf(_, _)
RecordsOf(file, indtauxw) ==
    IF indtauxw = <<>> THEN <<>>
    ELSE RecordsAt(file, Head(indtauxw)) \o RecordsOf(file, Tail(indtauxw))

\* The (file number, model time, sample index) triples of inds.
SatPairs(n, file, indtauxw) ==
    {u \in {n} \X {file.time[indtauxw[k]] : k \in 1..Len(indtauxw)} \X (1..Len(stime)) :
        InWindow(stime[u[3]], u[2])}

\* The time steps of indtauxw the loop gets to: all of them, or those up
\* to the one whose records no longer fit the preallocated arrays.
Overflows(file, steps) == c + Len(RecordsOf(file, steps)) > Len(f)

Searched(file, indtauxw) ==
    IF ~Overflows(file, indtauxw) THEN indtauxw
    ELSE LET m == CHOOSE m \in 1..Len(indtauxw) :
                     /\ Overflows(file, SubSeq(indtauxw, 1, m))
                     /\ \A i \in 1..(m - 1) : ~Overflows(file, SubSeq(indtauxw, 1, i))
         IN  SubSeq(indtauxw, 1, m)

\* f with the records new written from index c on; the part that fits
\* when the preallocated arrays are too short.
Written(new) ==
    [k \in 1..Len(f) |->
        IF k > c /\ k <= c + Len(new) THEN new[k - c] ELSE f[k]]

\* One pass of "for i in range(0,size(wlist))": a file that cannot be
\* opened is reported and skipped; a file whose grid fails the check ends
\* the run; otherwise the model times that some satellite sample has
\* exactly are matched with the samples within the window, and a sample
\* at a valid cell becomes candidate record c.  Writing past the
\* preallocated length raises IndexError.
ProcessModelFile ==
    /\ prog = "sat" /\ pc = "files" /\ t < Len(wlist)
    /\ t' = t + 1
    /\ LET file == wlist[t + 1]
           indtauxw == Intersect1dIndexes(file.time)
           new == RecordsOf(file, indtauxw)
       IN  IF ~file.ok
           THEN /\ pc' = IF t' = Len(wlist) THEN "qc" ELSE "files"
                /\ UNCHANGED <<c, f, used>>
           ELSE IF GridMismatch(file.latitude, NormalizedLon(file.longitude))
           THEN /\ pc' = "exit"
                /\ UNCHANGED <<c, f, used>>
           ELSE /\ used' = used \cup SatPairs(t', file, Searched(file, indtauxw))
                /\ f' = Written(new)
                /\ IF Overflows(file, indtauxw)
                   THEN /\ c' = Len(f)
                        /\ pc' = "crash"
                   ELSE /\ c' = c + Len(new)
                        /\ pc' = IF t' = Len(wlist) THEN "qc" ELSE "files"
    /\ UNCHANGED <<prog, gridVars, lookVars, wlist, stname, mtime, mhs, mtm, mdm>>
    /\ UNCHANGED <<buoyVars, stime, shs, swnd, slat, slon, ncfile>>
    /\ UNCHANGED cycVars
    /\ UNCHANGED auxVars

----------------------------------------------------------------------------
(* Satellite script: quality control and output *)

SatHsMax == 20
SatWndMax == 60
SatMin == 0

\* A selection that also accepts the lower limit itself.
SatPassInclusive(r) ==
    /\ Num(r.fwhs) /\ r.fwhs >= SatMin /\ LT(r.fwhs, SatHsMax)
    /\ Num(r.fwwnd) /\ r.fwwnd >= SatMin /\ LT(r.fwwnd, SatWndMax)
    /\ Num(r.fshs) /\ r.fshs >= SatMin /\ LT(r.fshs, SatHsMax)
    /\ Num(r.fswnd) /\ r.fswnd >= SatMin /\ LT(r.fswnd, SatWndMax)

\* The test of np.where in the quality control of the candidate records.
SatPass(r) ==
    /\ GT(r.fwhs, SatMin) /\ LT(r.fwhs, SatHsMax)
    /\ GT(r.fwwnd, SatMin) /\ LT(r.fwwnd, SatWndMax)
    /\ GT(r.fshs, SatMin) /\ LT(r.fshs, SatHsMax)
    /\ GT(r.fswnd, SatMin) /\ LT(r.fswnd, SatWndMax)

\* What np.array(fcmap).astype('int') makes of np.nan, as it reaches the
\* int16 variable of the file.  The conversion of NaN to an integer is
\* undefined: builds that give the lowest integer or 0 store 0, builds
\* that saturate to the highest integer store -1.
NaNAsInt == {0, -1}

\* The records that pass are selected, fcmap is converted to integers,
\* and the output file is written; when no record passes a message is
\* printed and the script ends without an output file.
SatQualityControl ==
    /\ prog = "sat" /\ pc = "qc"
    /\ LET ind == Where(Len(f), LAMBDA k : SatPass(f[k]))
       IN  IF Len(ind) > 0
           THEN /\ \E nanint \in NaNAsInt :
                     f' = [k \in 1..Len(ind) |->
                             [f[ind[k]] EXCEPT !.fcmap = IF IsNaN(@) THEN nanint ELSE @]]
                /\ ncfile' = f'
           ELSE UNCHANGED <<f, ncfile>>
    /\ pc' = "done"
    /\ UNCHANGED <<prog, gridVars, lookVars, readVars, buoyVars>>
    /\ UNCHANGED <<stime, shs, swnd, slat, slon, c, used>>
    /\ UNCHANGED cycVars
    /\ UNCHANGED auxVars

----------------------------------------------------------------------------
(* prepGridMask: the construction of the mask *)

MinDepth == 80
MinDfc == 50
MapstaMax == 100

\* "(ib>0)|(mapsta>100)|(mapsta==0)", or "ib>0" without MAPSTA in the
\* sample file: continent or cell outside the model.
Excluded(i, j) ==
    \/ GT(ib[i][j], 0)
    \/ /\ mapsta # Unset
       /\ (GT(mapsta[i][j], MapstaMax) \/ mapsta[i][j] = 0)

\* "(ib<=(-1*mindepth)) & (idfc>=mindfc)"
DeepOffshore(i, j) ==
    /\ Num(ib[i][j]) /\ ib[i][j] <= -MinDepth
    /\ Num(idfc[i][j]) /\ idfc[i][j] >= MinDfc

\* The mask of a cell from its own depth and coast distance: NaN for an
\* excluded cell, 1 for a deep cell far from the coast, else 0.
CellMask(i, j) ==
    IF Excluded(i, j) THEN NaN ELSE IF DeepOffshore(i, j) THEN 1 ELSE 0

\* "Build Mask": the mask of every cell, and then mask[:,0]=mask[:,-1],
\* which puts the last column into the first.
BuildMask ==
    /\ prog = "prepGridMask" /\ pc = "mask"
    /\ mask' = [i \in 1..Len(ib) |-> [j \in 1..Len(ib[i]) |->
                  IF j = 1 THEN CellMask(i, Len(ib[i])) ELSE CellMask(i, j)]]
    /\ pc' = "done"
    /\ UNCHANGED <<prog, mlat, mlon, distcoast, depth, lookVars, readVars>>
    /\ UNCHANGED <<buoyVars, satVars, cycVars, auxVars, ncfile, used>>

MaskCols == 2

\* Bathymetry: land, shallow, at the minimum depth, deep.
BathyValues == {100, -50, -80, -200}
\* Coast distance: near, at the minimum distance.
CoastValues == {10, 50}
\* MAPSTA: outside the model, sea, excluded.
MapstaValues == {0, 1, 101}

InitMask ==
    /\ prog = "prepGridMask" /\ pc = "mask"
    /\ ib \in [1..1 -> [1..MaskCols -> BathyValues]]
    /\ idfc \in [1..1 -> [1..MaskCols -> CoastValues]]
    /\ mapsta \in {Unset} \cup [1..1 -> [1..MaskCols -> MapstaValues]]
    /\ mask = Unset
    /\ mlat = Unset /\ mlon = Unset /\ distcoast = Unset /\ depth = Unset
    /\ wlist = Unset /\ t = 0
    /\ stname = Unset /\ mtime = Unset
    /\ mhs = Unset /\ mtm = Unset /\ mdm = Unset
    /\ b = 0 /\ bfile = Unset /\ bhs = Unset /\ btm = Unset /\ bdm = Unset
    /\ lat = Unset /\ lon = Unset
    /\ qlat = 0 /\ qlon = 0 /\ indgplat = 0 /\ indgplon = 0
    /\ stime = Unset /\ shs = Unset /\ swnd = Unset /\ slat = Unset
    /\ slon = Unset /\ c = 0 /\ f = Unset
    /\ ncfile = Unset
    /\ used = {}
    /\ oni = Unset /\ hsmz = Unset /\ clat = Unset /\ clon = Unset
    /\ slist = Unset /\ sfile = 0 /\ sid = Unset
    /\ ctime = Unset /\ cmap = Unset /\ fcmap = Unset /\ forecastds = 0

NextMask == BuildMask

SpecMask == InitMask /\ [][NextMask]_vars

----------------------------------------------------------------------------
(* The nearest-point lookup of both scripts, on its own *)

MaxGrid == 2

LatNodes == {-10, 10}
LatQueries == {-10, 0, 15}
LonNodes == {0, 180, 270}
LonQueries == {-179, -10, 90, 181, 350}

InitLocate ==
    /\ prog \in {"buoy", "sat"}
    /\ pc = "locate"
    /\ mlat \in SeqsUpTo(LatNodes, MaxGrid)
    /\ mlon \in SeqsUpTo(LonNodes, MaxGrid)
    /\ qlat \in LatQueries
    /\ qlon \in LonQueries
    /\ indgplat = 0 /\ indgplon = 0
    /\ mask = Unset /\ distcoast = Unset /\ depth = Unset
    /\ wlist = Unset /\ t = 0 /\ stname = Unset /\ mtime = Unset
    /\ mhs = Unset /\ mtm = Unset /\ mdm = Unset
    /\ b = 0 /\ bfile = Unset /\ bhs = Unset /\ btm = Unset /\ bdm = Unset
    /\ lat = Unset /\ lon = Unset
    /\ stime = Unset /\ shs = Unset /\ swnd = Unset /\ slat = Unset
    /\ slon = Unset /\ c = 0 /\ f = Unset
    /\ ncfile = Unset
    /\ used = {}
    /\ oni = Unset /\ hsmz = Unset /\ clat = Unset /\ clon = Unset
    /\ ib = Unset /\ idfc = Unset /\ mapsta = Unset
    /\ slist = Unset /\ sfile = 0 /\ sid = Unset
    /\ ctime = Unset /\ cmap = Unset /\ fcmap = Unset /\ forecastds = 0

\* The longitude the lookup compares with mlon: alon in the buoy script,
\* slon after its conversion in the satellite script.
LookupLon(p, x) == IF p = "buoy" THEN To360(x) ELSE ToSigned(x)

\* The longitude array the lookup searches.
LookupGrid(p, g) == IF p = "buoy" THEN g ELSE SatGridLon(g)

Locate ==
    /\ pc = "locate"
    /\ mlon' = LookupGrid(prog, mlon)
    /\ qlon' = LookupLon(prog, qlon)
    /\ indgplat' = NearestIndex(mlat, qlat)
    /\ indgplon' = NearestIndex(mlon', qlon')
    /\ pc' = IF indgplat' = 0 \/ indgplon' = 0 THEN "crash" ELSE "located"
    /\ UNCHANGED <<prog, mlat, mask, distcoast, depth, qlat>>
    /\ UNCHANGED <<readVars, buoyVars, satVars, ncfile, used>>
    /\ UNCHANGED cycVars
    /\ UNCHANGED auxVars

NextLocate == Locate

SpecLocate == InitLocate /\ [][NextLocate]_vars

----------------------------------------------------------------------------
(* The model read loop of the buoy script, from the start of the script *)

MaxFiles == 2
MaxFileLen == 2
NStations == 2

ModelTimes == {0, 3600}
ModelLevels == {16, 35}

\* A point-output file that opens: its time axis and, for every station
\* and time, height, period and direction.
ModelFile(times, level) ==
    [ok |-> TRUE, time |-> times,
     station_name |-> [s \in 1..NStations |-> s],
     hs   |-> [s \in 1..NStations |-> [k \in 1..Len(times) |-> level + s + k]],
     tr   |-> [s \in 1..NStations |-> [k \in 1..Len(times) |-> 8]],
     th1m |-> [s \in 1..NStations |-> [k \in 1..Len(times) |-> 90]]]

\* A file that cannot be opened.
BadFile ==
    [ok |-> FALSE, time |-> <<>>, station_name |-> <<>>,
     hs |-> <<>>, tr |-> <<>>, th1m |-> <<>>]

ModelFiles ==
    {ModelFile(times, level) :
        times \in SeqsUpTo(ModelTimes, MaxFileLen), level \in ModelLevels}
    \cup {BadFile}

InitRead ==
    /\ prog = "buoy" /\ pc = "model"
    /\ wlist \in SeqsUpTo(ModelFiles, MaxFiles)
    /\ t = 0
    /\ stname = Unset /\ mtime = Unset
    /\ mhs = Unset /\ mtm = Unset /\ mdm = Unset
    /\ b = 0 /\ bfile = Unset /\ bhs = Unset /\ btm = Unset /\ bdm = Unset
    /\ lat = Unset /\ lon = Unset
    /\ mlat = Unset /\ mlon = Unset
    /\ mask = Unset /\ distcoast = Unset /\ depth = Unset
    /\ qlat = 0 /\ qlon = 0 /\ indgplat = 0 /\ indgplon = 0
    /\ stime = Unset /\ shs = Unset /\ swnd = Unset /\ slat = Unset
    /\ slon = Unset /\ c = 0 /\ f = Unset
    /\ ncfile = Unset
    /\ used = {}
    /\ oni = Unset /\ hsmz = Unset /\ clat = Unset /\ clon = Unset
    /\ ib = Unset /\ idfc = Unset /\ mapsta = Unset
    /\ slist = Unset /\ sfile = 0 /\ sid = Unset
    /\ ctime = Unset /\ cmap = Unset /\ fcmap = Unset /\ forecastds = 0

NextRead == ReadModelFile \/ StartBuoys

SpecRead == InitRead /\ [][NextRead]_vars

----------------------------------------------------------------------------
(* The two scripts from their matching loops on: the buoy script from the  *)
(* loop over the buoys, with the series of one model file; the satellite   *)
(* script from the loop over the model files, with the grid and the        *)
(* satellite samples it has loaded.                                        *)

MaxObs == 1
MaxSteps == 2
MaxSat == 2

\* Hourly model times.
HourlyTimes(n) == [k \in 1..n |-> (k - 1) * 3600]

StationLat(s) == 30
StationLon(s) == CASE s % 3 = 1 -> 200 [] s % 3 = 2 -> 180 [] OTHER -> -70

\* The model file behind the series: in range everywhere, except for the
\* given height of the first station at the first time.
SeriesFile(level) ==
    [ok |-> TRUE, time |-> HourlyTimes(MaxSteps),
     station_name |-> [s \in 1..NStations |-> s],
     hs   |-> [s \in 1..NStations |-> [k \in 1..MaxSteps |->
                  IF s = 1 /\ k = 1 THEN level ELSE 16]],
     tr   |-> [s \in 1..NStations |-> [k \in 1..MaxSteps |-> 8]],
     th1m |-> [s \in 1..NStations |-> [k \in 1..MaxSteps |-> 90]]]

BuoyTimes == {1799, 1800, 1801}
BuoyHsAt(x) == IF x = 1801 THEN 36 ELSE 18

StrictlyIncreasing(q) == \A i, j \in 1..Len(q) : i < j => q[i] < q[j]
NonDecreasing(q) == \A i, j \in 1..Len(q) : i < j => q[i] <= q[j]

\* A buoy file of station s that can be read, with samples at the given
\* times.
BuoyFile(s, times) ==
    [ok |-> TRUE, time |-> times,
     hs |-> [k \in 1..Len(times) |-> BuoyHsAt(times[k])],
     tm |-> [k \in 1..Len(times) |-> 8],
     dm |-> [k \in 1..Len(times) |-> 90],
     latitude |-> StationLat(s), longitude |-> StationLon(s)]

\* A buoy file that is missing or cannot be read, or that the script does
\* not open.
NoBuoyFile ==
    [ok |-> FALSE, time |-> <<>>, hs |-> <<>>, tm |-> <<>>, dm |-> <<>>,
     latitude |-> NaN, longitude |-> NaN]

BuoyFiles(s) ==
    {BuoyFile(s, times) :
        times \in {q \in SeqsUpTo(BuoyTimes, MaxObs) : StrictlyIncreasing(q)} \cup {<<>>}}
    \cup {NoBuoyFile}

\* The grid of the gridinfo file: longitudes as the file holds them, and
\* a mask with one excluded cell.
GridLat == <<-10, 10>>
GridLonFile == <<0, 180, 190>>
GridMask == <<<<1, 1, 1>>, <<1, 1, 0>>>>
GridDistCoast == <<<<100, 100, 100>>, <<100, 100, 100>>>>
GridDepth == <<<<500, 500, 500>>, <<500, 500, 500>>>>

\* The positions of the satellite samples, after the conversion of slon.
SampleLat(j) == 9
SampleLon(j) == CASE j % 3 = 1 -> 179 [] j % 3 = 2 -> -169 [] OTHER -> 1

\* The region ids of the gridinfo file.
GridOni == [i \in 1..2 |-> [j \in 1..3 |-> 1]]
GridHsmz == [i \in 1..2 |-> [j \in 1..3 |-> j]]

\* The cyclone map: two slices, both before the model times; the first
\* has a negative code in one cell.
CycloneTimes == <<-3600, -1800>>
CycloneMap ==
    [k \in 1..2 |-> [i \in 1..Len(GridLat) |-> [j \in 1..Len(GridLonFile) |->
        IF k = 2 THEN 2 ELSE IF i = 2 /\ j = 2 THEN -1 ELSE 1]]]

InitBuoy ==
    /\ prog = "buoy" /\ pc = "buoys"
    /\ \E level \in ModelLevels :
          /\ wlist = <<SeriesFile(level)>>
          /\ mhs = SeriesFile(level).hs
          /\ mtm = SeriesFile(level).tr
          /\ mdm = SeriesFile(level).th1m
    /\ t = 1
    /\ stname = [s \in 1..NStations |-> s]
    /\ mtime = HourlyTimes(MaxSteps)
    /\ b = 0 /\ bfile = <<>>
    /\ bhs = NaNArray(NStations, MaxSteps)
    /\ btm = NaNArray(NStations, MaxSteps)
    /\ bdm = NaNArray(NStations, MaxSteps)
    /\ lat = [s \in 1..NStations |-> NaN]
    /\ lon = [s \in 1..NStations |-> NaN]
    \* the script runs without a gridinfo file, with one, or with one and
    \* a cyclone map
    /\ \E args \in {"none", "gridinfo", "cyclonemap"} :
          /\ mlat = IF args = "none" THEN Unset ELSE GridLat
          /\ mlon = IF args = "none" THEN Unset ELSE GridLonFile
          /\ mask = IF args = "none" THEN Unset ELSE GridMask
          /\ distcoast = IF args = "none" THEN Unset ELSE GridDistCoast
          /\ depth = IF args = "none" THEN Unset ELSE GridDepth
          /\ oni = IF args = "none" THEN Unset ELSE GridOni
          /\ hsmz = IF args = "none" THEN Unset ELSE GridHsmz
          /\ ctime = IF args = "cyclonemap" THEN CycloneTimes ELSE Unset
          /\ cmap = IF args = "cyclonemap" THEN CycloneMap ELSE Unset
    /\ qlat = 0 /\ qlon = 0 /\ indgplat = 0 /\ indgplon = 0
    /\ stime = Unset /\ shs = Unset /\ swnd = Unset /\ slat = Unset
    /\ slon = Unset /\ c = 0 /\ f = Unset
    /\ ncfile = Unset
    /\ used = {}
    /\ clat = Unset /\ clon = Unset
    /\ ib = Unset /\ idfc = Unset /\ mapsta = Unset
    /\ slist = Unset /\ sfile = 0 /\ sid = Unset
    /\ fcmap = Unset /\ forecastds = 0

SatTimes == {0, 1800, 3599, 3600}

\* A gridded model file that opens, with the unit of its time variable
\* and the given grid.  time holds what the loop over the model files
\* makes of the time variable: its values times 24*3600, whatever the
\* unit.
FieldFile(units, times, wlat, wlon) ==
    [ok |-> TRUE, units |-> units, time |-> times,
     latitude |-> wlat, longitude |-> wlon,
     hs  |-> [k \in 1..Len(times) |-> [i \in 1..Len(wlat) |->
                 [j \in 1..Len(wlon) |-> k + 2 * i + j]]],
     wnd |-> [k \in 1..Len(times) |-> [i \in 1..Len(wlat) |->
                 [j \in 1..Len(wlon) |-> 10]]]]

NoFieldFile ==
    [ok |-> FALSE, units |-> "days", time |-> <<>>,
     latitude |-> <<>>, longitude |-> <<>>, hs |-> <<>>, wnd |-> <<>>]

\* Files in days, one file in hours, files of another grid and a file
\* that does not open.
FieldFiles ==
    {FieldFile("days", times, GridLat, GridLonFile) :
        times \in {q \in SeqsUpTo(ModelTimes, MaxFileLen) : NonDecreasing(q)}}
    \cup {FieldFile("hours", <<0, 3600>>, GridLat, GridLonFile),
          FieldFile("days", <<0>>, <<-10, 20>>, GridLonFile),
          FieldFile("days", <<0>>, GridLat, <<0, 180, 200>>),
          FieldFile("days", <<0>>, <<-10, 20>>, <<0, 180, 200>>),
          NoFieldFile}

\* "for i in [0,1,-1]": the first, the second and the last file of the
\* list are opened for their times; the files of these three that open,
\* in this order.  A list of less than two lines cannot be indexed here
\* (a 0-d or an empty array of loadtxt): no file is opened.
AuxOpened(files) ==
    IF Len(files) < 2 THEN <<>>
    ELSE SelectSeq(<<1, 2, Len(files)>>,
                   LAMBDA p : files[p].ok /\ Len(files[p].time) > 0)

\* tincr: the seconds in the unit of the time variable.
TIncr(units) ==
    CASE units = "seconds" -> 1
      [] units = "hours"   -> 3600
      [] units = "days"    -> 24 * 3600

\* A time of the file as the preparation computes it: the value of the
\* time variable times tincr, where tincr is set from the first file
\* that opened (c==0) and kept for the others.  The times of the test
\* files make the quotient exact.
AuxTime(files, x) ==
    (x * TIncr(files[AuxOpened(files)[1]].units)) \div (24 * 3600)

\* auxmtime: the last time of the file for the third file that opened
\* (c==2), the first time of the file for the others.
AuxMTime(files) ==
    [k \in 1..Len(AuxOpened(files)) |->
        LET x == files[AuxOpened(files)[k]].time
        IN  AuxTime(files, IF k = 3 THEN x[Len(x)] ELSE x[1])]

\* nrt: the time span of the first file that opened.
Nrt(files) ==
    LET x == files[AuxOpened(files)[1]].time
    IN  Abs(AuxTime(files, x[Len(x)]) - AuxTime(files, x[1]))

\* np.ceil(n/d) for d other than 0.
CeilDiv(n, d) == IF d > 0 THEN -((-n) \div d) ELSE -(n \div (-d))

\* The preparation of the satellite script raises an exception: when
\* the list has less than two lines (wlist[i] raises IndexError, in the
\* try and again in its handler), when no model file gave a time
\* (auxmtime is still a list, and the time test of the satellite file
\* calls auxmtime.max()), and in forecast mode when auxmtime has less
\* than two elements or its first two elements are equal (the quotient
\* is inf or nan, which np.int rejects).
SetupFails(files, arg) ==
    \/ Len(files) < 2
    \/ Len(AuxOpened(files)) = 0
    \/ /\ arg > 0
       /\ \/ Len(AuxOpened(files)) < 2
          \/ AuxMTime(files)[2] = AuxMTime(files)[1]

\* forecastds after "if forecastds>0: lforecastds=...": the argument, or
\* the number of cycles computed from the first files when that is more.
ForecastDs(files, arg) ==
    IF arg = 0 THEN 0
    ELSE LET lforecastds ==
                 CeilDiv(Nrt(files), AuxMTime(files)[2] - AuxMTime(files)[1]) + 1
         IN  IF arg < lforecastds THEN lforecastds ELSE arg

ForecastArgs == {0, 1}

----------------------------------------------------------------------------
(* Both scripts: the grid check of the cyclone map *)

\* A check that passes unless both axes differ.
CycloneGridOkUnlessBoth == clat = mlat \/ clon = mlon

\* "np.array_equal(clat,mlat)==True & np.array_equal(clon,mlon)==True":
\* & binds tighter than ==, so Python evaluates the chain
\* A == (True & B) == True with A, B the two array_equal results, that
\* is (A == B) and (B == True).
CycloneGridOk ==
    LET eqlat == (clat = mlat)
        eqlon == (clon = mlon)
    IN  (eqlat = eqlon) /\ (eqlon = TRUE)

\* After the cyclone map is read its grid is compared with that of the
\* gridinfo file, and the run ends when they differ.  The satellite
\* script then converts mlon and clon when mlon has a node above 180.
CheckCycloneGrid ==
    /\ pc = "cyclonemap"
    /\ IF CycloneGridOk
       THEN /\ pc' = IF prog = "buoy" THEN "model" ELSE "slist"
            /\ mlon' = IF prog = "sat" THEN SatGridLon(mlon) ELSE mlon
            /\ clon' = IF prog = "sat" /\ \E i \in 1..Len(mlon) : mlon[i] > 180
                       THEN [i \in 1..Len(clon) |-> ToSigned(clon[i])]
                       ELSE clon
       ELSE /\ pc' = "exit"
            /\ UNCHANGED <<mlon, clon>>
    /\ UNCHANGED <<prog, mlat, mask, distcoast, depth, lookVars, readVars>>
    /\ UNCHANGED <<buoyVars, satVars, cycVars, ncfile, used>>
    /\ UNCHANGED <<oni, hsmz, clat, ib, idfc, mapsta, slist, sfile, sid>>

----------------------------------------------------------------------------
(* Satellite script: reading the satellite files *)

SubsetTol == 10800

\* np.zeros(stime.shape[0],'int')+mission, with stime already extended by
\* the samples of the file: one id for every sample read so far.
MissionIds(file, n) == [k \in 1..n |-> file.mission]

\* "(np.nanmin(astime)>=auxmtime.max()) or (np.nanmax(astime)<auxmtime.min())"
OutsideModelTimes(astime, auxmtime) ==
    MinOf(astime) >= MaxOf(auxmtime) \/ MaxOf(astime) < MinOf(auxmtime)

\* The test of indes: within three hours of the model times.
NearModelTimes(x, auxmtime) ==
    x >= MinOf(auxmtime) - SubsetTol /\ x <= MaxOf(auxmtime) + SubsetTol

\* One pass of "for i in range(0,size(slist))": a file that cannot be
\* opened is reported and skipped, and so is a file whose times are
\* outside the model times; the samples of another file are appended,
\* and the mission ids after them; a file name without a known mission
\* ends the run.  A file without samples raises an exception in nanmin.
\* With a list of one line slist[i] is a 0-d array of loadtxt, and every
\* message built as a string plus slist[i] raises TypeError: that of a
\* file outside the model times, that of an unknown mission, and the
\* "ok" after the samples of the file were appended.
ReadSatFile ==
    /\ prog = "sat" /\ pc = "slist" /\ sfile < Len(slist)
    /\ sfile' = sfile + 1
    /\ LET file == slist[sfile + 1]
           next == IF sfile' = Len(slist) THEN "subset" ELSE "slist"
           said == IF Len(slist) = 1 THEN "crash" ELSE next
       IN  IF ~file.ok
           THEN /\ pc' = next
                /\ UNCHANGED <<stime, shs, swnd, slat, slon, sid>>
           ELSE IF Len(file.stime) = 0
           THEN /\ pc' = "crash"
                /\ UNCHANGED <<stime, shs, swnd, slat, slon, sid>>
           ELSE IF OutsideModelTimes(file.stime, AuxMTime(wlist))
           THEN /\ pc' = said
                /\ UNCHANGED <<stime, shs, swnd, slat, slon, sid>>
           ELSE /\ slat' = slat \o file.latitude
                /\ slon' = slon \o file.longitude
                /\ swnd' = swnd \o file.wnd
                /\ shs' = shs \o file.hs
                /\ stime' = stime \o file.stime
                /\ IF file.mission >= 0
                   THEN /\ sid' = sid \o MissionIds(file, Len(stime'))
                        /\ pc' = said
                   ELSE /\ sid' = sid
                        /\ pc' = IF Len(slist) = 1 THEN "crash" ELSE "exit"
    /\ UNCHANGED <<prog, gridVars, lookVars, readVars, buoyVars, c, f>>
    /\ UNCHANGED <<oni, hsmz, clat, clon, ib, idfc, mapsta, slist>>
    /\ UNCHANGED <<cycVars, ncfile, used>>

\* The samples within three hours of the model times are kept, the run
\* ends when there is none; the longitudes are converted and the arrays
\* of the candidate records are allocated.
SubsetSat ==
    /\ prog = "sat" /\ pc = "subset"
    /\ LET indes == Where(Len(stime),
                         LAMBDA k : NearModelTimes(stime[k], AuxMTime(wlist)))
       IN  IF Len(indes) > 0
           THEN /\ stime' = Pick(stime, indes)
                /\ sid' = Pick(sid, indes)
                /\ shs' = Pick(shs, indes)
                /\ swnd' = Pick(swnd, indes)
                /\ slat' = Pick(slat, indes)
                /\ slon' = [k \in 1..Len(indes) |-> ToSigned(slon[indes[k]])]
                /\ f' = [k \in 1..(Len(indes) * (forecastds + 1)) |-> EmptyRecord]
                /\ pc' = "files"
           ELSE /\ pc' = "exit"
                /\ UNCHANGED <<stime, sid, shs, swnd, slat, slon, f>>
    /\ UNCHANGED <<prog, gridVars, lookVars, readVars, buoyVars, c>>
    /\ UNCHANGED <<oni, hsmz, clat, clon, ib, idfc, mapsta, slist, sfile>>
    /\ UNCHANGED <<cycVars, ncfile, used>>

InitSat ==
    /\ prog = "sat"
    /\ wlist \in SeqsUpTo(FieldFiles, MaxFiles)
    /\ \E arg \in ForecastArgs :
          IF SetupFails(wlist, arg)
          THEN pc = "crash" /\ forecastds = arg
          ELSE pc = "files" /\ forecastds = ForecastDs(wlist, arg)
    /\ IF pc = "crash"
       \* the preparation failed: no sample kept, no record allocated
       THEN /\ stime = Unset /\ shs = Unset /\ swnd = Unset
            /\ slat = Unset /\ slon = Unset /\ sid = Unset
            /\ f = Unset
       \* the samples of the first mission, as the read loop and the
       \* selection near the model times leave them, and the empty records
       ELSE /\ stime \in {q \in [1..MaxSat -> SatTimes] :
                  /\ NonDecreasing(q)
                  /\ ~OutsideModelTimes(q, AuxMTime(wlist))
                  /\ \A k \in 1..MaxSat : NearModelTimes(q[k], AuxMTime(wlist))}
            /\ shs = [j \in 1..MaxSat |-> 5]
            /\ swnd = [j \in 1..MaxSat |-> 10]
            /\ slat = [j \in 1..MaxSat |-> SampleLat(j)]
            /\ slon = [j \in 1..MaxSat |-> SampleLon(j)]
            /\ sid = [j \in 1..MaxSat |-> 0]
            /\ f = [k \in 1..(MaxSat * (forecastds + 1)) |-> EmptyRecord]
    /\ t = 0
    /\ mlat = GridLat /\ mlon = SatGridLon(GridLonFile)
    /\ mask = GridMask /\ distcoast = GridDistCoast /\ depth = GridDepth
    /\ c = 0
    /\ stname = Unset /\ mtime = Unset
    /\ mhs = Unset /\ mtm = Unset /\ mdm = Unset
    /\ b = 0 /\ bfile = Unset /\ bhs = Unset /\ btm = Unset /\ bdm = Unset
    /\ lat = Unset /\ lon = Unset
    /\ qlat = 0 /\ qlon = 0 /\ indgplat = 0 /\ indgplon = 0
    /\ ncfile = Unset
    /\ used = {}
    /\ oni = Unset /\ hsmz = Unset /\ clat = Unset /\ clon = Unset
    /\ ib = Unset /\ idfc = Unset /\ mapsta = Unset
    /\ slist = Unset /\ sfile = 0
    /\ ctime = CycloneTimes /\ cmap = CycloneMap /\ fcmap = Unset

Init == InitBuoy \/ InitSat

Next ==
    \/ \E ndbc \in BuoyFiles(b + 1) :
          \E copern \in IF ndbc.ok THEN {NoBuoyFile} ELSE BuoyFiles(b + 1) :
             ReadBuoy(ndbc, copern)
    \/ QualityControl
    \/ CleanData
    \/ SaveBuoy
    \/ ProcessModelFile
    \/ SatQualityControl

Spec == Init /\ [][Next]_vars

----------------------------------------------------------------------------
(* The satellite script from the reading of the satellite files on, with   *)
(* two model files: one after the other in time, or both with the same     *)
(* time step.  The wave height of a sample is SatHsBase plus the mission   *)
(* of its file.                                                            *)

MaxSatFiles == 3
SatHsBase == 5
Missions == {0, 1, 2}
SampleTimes == {<<0>>, <<3600, 0>>}

SatFile(mission, times) ==
    [ok |-> TRUE, mission |-> mission, stime |-> times,
     latitude |-> [k \in 1..Len(times) |-> 9],
     longitude |-> [k \in 1..Len(times) |-> 179],
     hs |-> [k \in 1..Len(times) |-> SatHsBase + mission],
     wnd |-> [k \in 1..Len(times) |-> 10]]

NoSatFile ==
    [ok |-> FALSE, mission |-> 0, stime |-> <<>>, latitude |-> <<>>,
     longitude |-> <<>>, hs |-> <<>>, wnd |-> <<>>]

\* Files of known missions, a file that does not open, a file after the
\* model times, and a file of a mission that is not in the list.
SatFiles ==
    {SatFile(m, times) : m \in Missions, times \in SampleTimes}
    \cup {NoSatFile, SatFile(0, <<10800>>), SatFile(-1, <<0>>)}

\* Model files in sequence, model files that overlap in time, and model
\* files in sequence whose time variable is in hours.
SatReadLists ==
    {<<FieldFile("days", <<0, 3600>>, GridLat, GridLonFile),
       FieldFile("days", <<7200>>, GridLat, GridLonFile)>>,
     <<FieldFile("days", <<0>>, GridLat, GridLonFile),
       FieldFile("days", <<0, 3600>>, GridLat, GridLonFile)>>,
     <<FieldFile("hours", <<0, 3600>>, GridLat, GridLonFile),
       FieldFile("hours", <<7200>>, GridLat, GridLonFile)>>}

InitSatRead ==
    /\ prog = "sat" /\ pc = "slist"
    /\ wlist \in SatReadLists
    /\ forecastds = 0
    /\ t = 0
    /\ mlat = GridLat /\ mlon = SatGridLon(GridLonFile)
    /\ mask = GridMask /\ distcoast = GridDistCoast /\ depth = GridDepth
    /\ slist \in SeqsUpTo(SatFiles, MaxSatFiles)
    /\ sfile = 0
    /\ stime = <<>> /\ sid = <<>> /\ shs = <<>> /\ swnd = <<>>
    /\ slat = <<>> /\ slon = <<>>
    /\ c = 0 /\ f = Unset
    /\ stname = Unset /\ mtime = Unset
    /\ mhs = Unset /\ mtm = Unset /\ mdm = Unset
    /\ b = 0 /\ bfile = Unset /\ bhs = Unset /\ btm = Unset /\ bdm = Unset
    /\ lat = Unset /\ lon = Unset
    /\ qlat = 0 /\ qlon = 0 /\ indgplat = 0 /\ indgplon = 0
    /\ ncfile = Unset
    /\ used = {}
    /\ oni = Unset /\ hsmz = Unset /\ clat = Unset /\ clon = Unset
    /\ ib = Unset /\ idfc = Unset /\ mapsta = Unset
    /\ ctime = CycloneTimes /\ cmap = CycloneMap /\ fcmap = Unset

NextSatRead == ReadSatFile \/ SubsetSat \/ ProcessModelFile \/ SatQualityControl

SpecSatRead == InitSatRead /\ [][NextSatRead]_vars

----------------------------------------------------------------------------
(* Both scripts from the grid check of the cyclone map on, up to the loop  *)
(* over the model files.                                                   *)

MapLats == {GridLat, <<-10, 20>>, <<-10>>}
MapLons == {GridLonFile, <<0, 180, 200>>, <<0, 180>>}

InitCyclone ==
    /\ prog \in {"buoy", "sat"} /\ pc = "cyclonemap"
    /\ mlat \in {GridLat, <<-10, 20>>} /\ mlon \in {GridLonFile, <<0, 180, 200>>}
    /\ clat \in MapLats /\ clon \in MapLons
    /\ mask = GridMask /\ distcoast = GridDistCoast /\ depth = GridDepth
    /\ oni = GridOni /\ hsmz = GridHsmz
    /\ ctime = CycloneTimes /\ cmap = CycloneMap /\ fcmap = Unset
    /\ forecastds = 0
    /\ IF prog = "buoy"
       THEN /\ wlist \in {<<ModelFile(<<0>>, 16)>>, <<BadFile>>}
            /\ slist = Unset
            /\ stime = Unset /\ sid = Unset /\ shs = Unset /\ swnd = Unset
            /\ slat = Unset /\ slon = Unset
       ELSE /\ wlist = <<FieldFile("days", <<0>>, GridLat, GridLonFile),
                         FieldFile("days", <<3600>>, GridLat, GridLonFile)>>
            /\ slist \in {<<SatFile(0, <<0, 3600>>), SatFile(1, <<0>>)>>,
                          <<SatFile(1, <<0>>)>>}
            /\ stime = <<>> /\ sid = <<>> /\ shs = <<>> /\ swnd = <<>>
            /\ slat = <<>> /\ slon = <<>>
    /\ t = 0 /\ sfile = 0
    /\ c = 0 /\ f = Unset
    /\ stname = Unset /\ mtime = Unset
    /\ mhs = Unset /\ mtm = Unset /\ mdm = Unset
    /\ b = 0 /\ bfile = Unset /\ bhs = Unset /\ btm = Unset /\ bdm = Unset
    /\ lat = Unset /\ lon = Unset
    /\ qlat = 0 /\ qlon = 0 /\ indgplat = 0 /\ indgplon = 0
    /\ ncfile = Unset
    /\ used = {}
    /\ ib = Unset /\ idfc = Unset /\ mapsta = Unset

NextCyclone ==
    CheckCycloneGrid \/ ReadModelFile \/ ReadSatFile \/ SubsetSat \/ ProcessModelFile

SpecCyclone == InitCyclone /\ [][NextCyclone]_vars

----------------------------------------------------------------------------
(* The quality-control stage of both scripts, started from the arrays the  *)
(* matching loops leave.  The inputs the loops consumed are not part of    *)
(* the state of this specification.                                        *)

MaxStations == 2

Kinds == {"below", "low", "high", "above", "mid", "nan"}

\* A value of the given kind for a variable with limits lo and hi.
ValOf(kind, lo, hi) ==
    CASE kind = "below" -> lo - 1
      [] kind = "low"   -> lo
      [] kind = "high"  -> hi
      [] kind = "above" -> hi + 1
      [] kind = "mid"   -> (lo + hi) \div 2
      [] kind = "nan"   -> NaN

ValArray(karr, lo, hi) ==
    [s \in 1..Len(karr) |-> [k \in 1..Len(karr[s]) |-> ValOf(karr[s][k], lo, hi)]]

AllMid == [s \in 1..MaxStations |-> [k \in 1..MaxSteps |-> "mid"]]

\* Kind matrices with the first station free and the others in range.
FirstRowFree ==
    {[s \in 1..MaxStations |-> IF s = 1 THEN row ELSE AllMid[s]] :
        row \in [1..MaxSteps -> Kinds]}

\* Kind matrices of present / missing values, and of stations whose model
\* series is present or missing as a whole.
PresentOrMissing == [1..MaxStations -> [1..MaxSteps -> {"mid", "nan"}]]
RowPresentOrMissing ==
    {[s \in 1..MaxStations |-> [k \in 1..MaxSteps |-> rk[s]]] :
        rk \in [1..MaxStations -> {"mid", "nan"}]}

InitQCBuoy ==
    /\ prog = "buoy" /\ pc = "qc"
    /\ \E bk \in FirstRowFree \cup PresentOrMissing,
          mk \in FirstRowFree \cup RowPresentOrMissing :
          /\ \/ bk \in FirstRowFree /\ mk = AllMid
             \/ bk = AllMid /\ mk \in FirstRowFree
             \/ bk \in PresentOrMissing /\ mk \in RowPresentOrMissing
          /\ bhs = ValArray(bk, HsMin, HsMax)
          /\ btm = ValArray(bk, TmMin, TmMax)
          /\ bdm = ValArray(bk, DmMin, DmMax)
          /\ mhs = ValArray(mk, HsMin, HsMax)
          /\ mtm = ValArray(mk, TmMin, TmMax)
          /\ mdm = ValArray(mk, DmMin, DmMax)
    \* a station no buoy file was read for has no position and no data
    /\ \E nopos \in SUBSET {s \in 1..MaxStations : NanMeanIsNaN(bhs[s])} :
          /\ lat = [s \in 1..MaxStations |-> IF s \in nopos THEN NaN ELSE StationLat(s)]
          /\ lon = [s \in 1..MaxStations |-> IF s \in nopos THEN NaN ELSE StationLon(s)]
    /\ stname = [s \in 1..MaxStations |-> s]
    /\ mtime = HourlyTimes(MaxSteps)
    /\ wlist = <<>> /\ t = 0
    /\ b = MaxStations /\ bfile = <<>>
    /\ mlat = Unset /\ mlon = Unset
    /\ mask = Unset /\ distcoast = Unset /\ depth = Unset
    /\ qlat = 0 /\ qlon = 0 /\ indgplat = 0 /\ indgplon = 0
    /\ stime = Unset /\ shs = Unset /\ swnd = Unset /\ slat = Unset
    /\ slon = Unset /\ c = 0 /\ f = Unset
    /\ ncfile = Unset
    /\ used = {}
    /\ oni = Unset /\ hsmz = Unset /\ clat = Unset /\ clon = Unset
    /\ ib = Unset /\ idfc = Unset /\ mapsta = Unset
    /\ slist = Unset /\ sfile = 0 /\ sid = Unset
    /\ ctime = Unset /\ cmap = Unset /\ fcmap = Unset /\ forecastds = 0

\* Written candidate records with at most one value off the middle of its
\* range.
QCRecords ==
    {[fwhs  |-> ValOf(IF v = 1 THEN kind ELSE "mid", SatMin, SatHsMax),
      fwwnd |-> ValOf(IF v = 2 THEN kind ELSE "mid", SatMin, SatWndMax),
      fshs  |-> ValOf(IF v = 3 THEN kind ELSE "mid", SatMin, SatHsMax),
      fswnd |-> ValOf(IF v = 4 THEN kind ELSE "mid", SatMin, SatWndMax),
      flat |-> 0, flon |-> 0, ftime |-> 0, fcmap |-> 0, fcycle |-> NaN,
      fsid |-> 0] :
        v \in 1..4, kind \in Kinds}

InitQCSat ==
    /\ prog = "sat" /\ pc = "qc"
    /\ c \in 0..MaxSat
    /\ f \in [1..MaxSat -> QCRecords \cup {EmptyRecord}]
    /\ \A k \in 1..MaxSat : (f[k] = EmptyRecord) <=> (k > c)
    /\ stime = [k \in 1..MaxSat |-> 0]
    /\ shs = [k \in 1..MaxSat |-> IF k > c THEN NaN ELSE f[k].fshs]
    /\ swnd = [k \in 1..MaxSat |-> IF k > c THEN NaN ELSE f[k].fswnd]
    /\ slat = [k \in 1..MaxSat |-> 0]
    /\ slon = [k \in 1..MaxSat |-> 0]
    /\ mlat = <<0>> /\ mlon = <<0>>
    /\ mask = <<<<1>>>> /\ distcoast = <<<<1>>>> /\ depth = <<<<1>>>>
    /\ qlat = 0 /\ qlon = 0 /\ indgplat = 0 /\ indgplon = 0
    /\ wlist = <<>> /\ t = 0 /\ stname = Unset /\ mtime = Unset
    /\ mhs = Unset /\ mtm = Unset /\ mdm = Unset
    /\ b = 0 /\ bfile = Unset /\ bhs = Unset /\ btm = Unset /\ bdm = Unset
    /\ lat = Unset /\ lon = Unset
    /\ ncfile = Unset
    /\ used = {}
    /\ oni = Unset /\ hsmz = Unset /\ clat = Unset /\ clon = Unset
    /\ ib = Unset /\ idfc = Unset /\ mapsta = Unset
    /\ slist = Unset /\ sfile = 0 /\ sid = Unset
    /\ ctime = Unset /\ cmap = Unset /\ fcmap = Unset /\ forecastds = 0

InitQC == InitQCBuoy \/ InitQCSat

NextQC == QualityControl \/ CleanData \/ SaveBuoy \/ SatQualityControl

SpecQC == InitQC /\ [][NextQC]_vars

----------------------------------------------------------------------------
(* The buoy script after the selection of the stations with data: the grid *)
(* and cyclone stage and the output, for stations on any cell of a grid    *)
(* that lacks the depth of one cell and the coast distance of another.     *)

GridStations == 3

StationCells == {<<y, x>> : y \in {-10, 10}, x \in {0, 180, -170}}

CoverDistCoast == <<<<NaN, 100, 100>>, <<100, 100, 100>>>>
CoverDepth == <<<<500, 500, 500>>, <<NaN, 500, 500>>>>
CoverOni == [i \in 1..2 |-> [j \in 1..3 |-> 100 + 10 * i + j]]
CoverHsmz == [i \in 1..2 |-> [j \in 1..3 |-> 200 + 10 * i + j]]

\* A cyclone map of one slice with a different code in every cell.
CellCodeTimes == <<0>>
CellCodeMap == <<[i \in 1..2 |-> [j \in 1..3 |-> 10 * i + j]]>>

\* Series that hold the number of their station.
StationSeries(n) == [s \in 1..n |-> [k \in 1..MaxSteps |-> s]]

InitGrid ==
    /\ prog = "buoy" /\ pc = "save"
    /\ \E pos \in [1..GridStations -> StationCells] :
          /\ lat = [s \in 1..GridStations |-> pos[s][1]]
          /\ lon = [s \in 1..GridStations |-> pos[s][2]]
    /\ stname = [s \in 1..GridStations |-> s]
    /\ mtime = HourlyTimes(MaxSteps)
    /\ mhs = StationSeries(GridStations) /\ bhs = StationSeries(GridStations)
    /\ mtm = StationSeries(GridStations) /\ btm = StationSeries(GridStations)
    /\ mdm = StationSeries(GridStations) /\ bdm = StationSeries(GridStations)
    /\ wlist = <<>> /\ t = 0
    /\ b = GridStations /\ bfile = <<>>
    /\ \E args \in {"none", "gridinfo", "cyclonemap"} :
          /\ mlat = IF args = "none" THEN Unset ELSE GridLat
          /\ mlon = IF args = "none" THEN Unset ELSE GridLonFile
          /\ mask = IF args = "none" THEN Unset ELSE GridMask
          /\ distcoast = IF args = "none" THEN Unset ELSE CoverDistCoast
          /\ depth = IF args = "none" THEN Unset ELSE CoverDepth
          /\ oni = IF args = "none" THEN Unset ELSE CoverOni
          /\ hsmz = IF args = "none" THEN Unset ELSE CoverHsmz
          /\ ctime = IF args = "cyclonemap" THEN CellCodeTimes ELSE Unset
          /\ cmap = IF args = "cyclonemap" THEN CellCodeMap ELSE Unset
    /\ qlat = 0 /\ qlon = 0 /\ indgplat = 0 /\ indgplon = 0
    /\ stime = Unset /\ shs = Unset /\ swnd = Unset /\ slat = Unset
    /\ slon = Unset /\ c = 0 /\ f = Unset
    /\ ncfile = Unset
    /\ used = {}
    /\ clat = Unset /\ clon = Unset
    /\ ib = Unset /\ idfc = Unset /\ mapsta = Unset
    /\ slist = Unset /\ sfile = 0 /\ sid = Unset
    /\ fcmap = Unset /\ forecastds = 0

NextGrid == SaveBuoy

SpecGrid == InitGrid /\ [][NextGrid]_vars

----------------------------------------------------------------------------
(* The buoy script from the loop over the buoys on, with one station: a    *)
(* model series of hourly samples of one height and an NDBC file with a    *)
(* sample of one height at every model time.                               *)

Hours == 48

\* Heights within the range of the quality control.
HourlyLevels == {1, 2}

HourlySeriesFile(n, level) ==
    [ok |-> TRUE, time |-> HourlyTimes(n), station_name |-> <<1>>,
     hs   |-> <<[k \in 1..n |-> level]>>,
     tr   |-> <<[k \in 1..n |-> 8]>>,
     th1m |-> <<[k \in 1..n |-> 90]>>]

HourlyBuoyFile(n, level) ==
    [ok |-> TRUE, time |-> HourlyTimes(n),
     hs |-> [k \in 1..n |-> level],
     tm |-> [k \in 1..n |-> 8],
     dm |-> [k \in 1..n |-> 90],
     latitude |-> StationLat(1), longitude |-> StationLon(1)]

InitHourly ==
    /\ prog = "buoy" /\ pc = "buoys"
    /\ \E n \in 1..Hours, level \in HourlyLevels :
          /\ wlist = <<HourlySeriesFile(n, level)>>
          /\ mtime = HourlyTimes(n)
          /\ mhs = HourlySeriesFile(n, level).hs
          /\ mtm = HourlySeriesFile(n, level).tr
          /\ mdm = HourlySeriesFile(n, level).th1m
          /\ bhs = NaNArray(1, n)
          /\ btm = NaNArray(1, n)
          /\ bdm = NaNArray(1, n)
    /\ t = 1
    /\ stname = <<1>>
    /\ b = 0 /\ bfile = <<>>
    /\ lat = <<NaN>> /\ lon = <<NaN>>
    /\ mlat = Unset /\ mlon = Unset
    /\ mask = Unset /\ distcoast = Unset /\ depth = Unset
    /\ qlat = 0 /\ qlon = 0 /\ indgplat = 0 /\ indgplon = 0
    /\ stime = Unset /\ shs = Unset /\ swnd = Unset /\ slat = Unset
    /\ slon = Unset /\ c = 0 /\ f = Unset
    /\ ncfile = Unset
    /\ used = {}
    /\ oni = Unset /\ hsmz = Unset /\ clat = Unset /\ clon = Unset
    /\ ib = Unset /\ idfc = Unset /\ mapsta = Unset
    /\ slist = Unset /\ sfile = 0 /\ sid = Unset
    /\ ctime = Unset /\ cmap = Unset /\ fcmap = Unset /\ forecastds = 0

NextHourly ==
    \/ \E level \in HourlyLevels :
          ReadBuoy(HourlyBuoyFile(Len(mtime), level), NoBuoyFile)
    \/ QualityControl
    \/ CleanData
    \/ SaveBuoy

SpecHourly == InitHourly /\ [][NextHourly]_vars

----------------------------------------------------------------------------
(* The longitude conversions of both scripts, on their own, each applied   *)
(* a second time to its own result.                                        *)

LonInputs == (-360)..360

InitLon ==
    /\ prog \in {"buoy", "sat"}
    /\ pc = "lon"
    /\ qlon \in LonInputs
    /\ lon = IF prog = "buoy" THEN <<qlon>> ELSE Unset
    /\ slon = IF prog = "sat" THEN <<qlon>> ELSE Unset
    /\ qlat = 0 /\ indgplat = 0 /\ indgplon = 0
    /\ mlat = Unset /\ mlon = Unset
    /\ mask = Unset /\ distcoast = Unset /\ depth = Unset
    /\ wlist = Unset /\ t = 0 /\ stname = Unset /\ mtime = Unset
    /\ mhs = Unset /\ mtm = Unset /\ mdm = Unset
    /\ b = 0 /\ bfile = Unset /\ bhs = Unset /\ btm = Unset /\ bdm = Unset
    /\ lat = Unset
    /\ stime = Unset /\ shs = Unset /\ swnd = Unset /\ slat = Unset
    /\ c = 0 /\ f = Unset
    /\ ncfile = Unset
    /\ used = {}
    /\ oni = Unset /\ hsmz = Unset /\ clat = Unset /\ clon = Unset
    /\ ib = Unset /\ idfc = Unset /\ mapsta = Unset
    /\ slist = Unset /\ sfile = 0 /\ sid = Unset
    /\ ctime = Unset /\ cmap = Unset /\ fcmap = Unset /\ forecastds = 0

\* alon=np.copy(lon); alon[alon<0]=alon[alon<0]+360. of the buoy script,
\* on the element qlon of alon.
ConvertAlon ==
    /\ prog = "buoy" /\ pc \in {"lon", "alon"}
    /\ qlon' = To360(qlon)
    /\ pc' = IF pc = "lon" THEN "alon" ELSE "alon again"
    /\ UNCHANGED <<prog, gridVars, qlat, indgplat, indgplon>>
    /\ UNCHANGED <<readVars, buoyVars, satVars, ncfile, used>>
    /\ UNCHANGED cycVars
    /\ UNCHANGED auxVars

\* lon[lon>180.]=lon[lon>180.]-360. of the buoy script and
\* slon[slon>180.] = slon[slon>180.]-360. of the satellite script.
ConvertSigned ==
    /\ \/ prog = "buoy" /\ pc \in {"alon again", "signed"}
       \/ prog = "sat" /\ pc \in {"lon", "signed"}
    /\ IF prog = "buoy"
       THEN /\ lon' = [i \in 1..Len(lon) |-> ToSigned(lon[i])]
            /\ slon' = slon
       ELSE /\ slon' = [i \in 1..Len(slon) |-> ToSigned(slon[i])]
            /\ lon' = lon
    /\ pc' = IF pc = "signed" THEN "signed again" ELSE "signed"
    /\ UNCHANGED <<prog, gridVars, lookVars, readVars>>
    /\ UNCHANGED <<b, bfile, bhs, btm, bdm, lat>>
    /\ UNCHANGED <<stime, shs, swnd, slat, c, f, ncfile, used>>
    /\ UNCHANGED cycVars
    /\ UNCHANGED auxVars

NextLon == ConvertAlon \/ ConvertSigned

SpecLon == InitLon /\ [][NextLon]_vars

----------------------------------------------------------------------------
(* Claims about the nearest-point lookup (SpecLocate) *)

\* i is the lowest index of grid whose node is nearest to q.
LowestNearest(grid, q, i) ==
    /\ i \in 1..Len(grid)
    /\ \A j \in 1..Len(grid) : Abs(grid[i] - q) <= Abs(grid[j] - q)
    /\ \A j \in 1..(i - 1) : Abs(grid[j] - q) > Abs(grid[i] - q)

\* C2: every lookup returns a result, and on each axis it is the lowest
\* index minimizing the absolute difference between the grid node and the
\* query coordinate of that axis alone.
C2_LowestNearestIndex ==
    pc # "locate" =>
        /\ pc = "located"
        /\ LowestNearest(mlat, qlat, indgplat)
        /\ LowestNearest(mlon, qlon, indgplon)

\* C2 witness: a lookup with a tie on both axes, resolved to the first of
\* two different indexes.
C2_Witness ==
    /\ pc = "located"
    /\ indgplat = 1 /\ Len(mlat) = 2
    /\ Abs(mlat[2] - qlat) = Abs(mlat[1] - qlat)
    /\ indgplon = 1 /\ Len(mlon) = 2
    /\ Abs(mlon[2] - qlon) = Abs(mlon[1] - qlon)

\* Eastward arc from longitude a to longitude b, and the angular distance
\* of two longitudes on the circle.
EastArc(x, y) == (y - x) % 360
AngDist(x, y) == IF EastArc(x, y) > 180 THEN 360 - EastArc(x, y) ELSE EastArc(x, y)

\* The node found is within half the spacing of every pair of nodes that
\* bracket the query: on a line for latitude, on the circle for longitude.
HalfSpacingLat ==
    \A i, j \in 1..Len(mlat) :
        (mlat[i] <= qlat /\ qlat <= mlat[j]) =>
            2 * Abs(mlat[indgplat] - qlat) <= mlat[j] - mlat[i]

HalfSpacingLonCircle ==
    \A i, j \in 1..Len(mlon) :
        2 * AngDist(mlon[indgplon], qlon)
            <= EastArc(mlon[i], qlon) + EastArc(qlon, mlon[j])

HalfSpacingLonLine ==
    \A i, j \in 1..Len(mlon) :
        (mlon[i] <= qlon /\ qlon <= mlon[j]) =>
            2 * Abs(mlon[indgplon] - qlon) <= mlon[j] - mlon[i]

\* C3 as stated: for every position, also next to the longitude seam, the
\* node found is within half the local grid spacing of the query, the
\* longitude difference being measured on the circle.
C3_HalfSpacingEverywhere ==
    pc = "located" => HalfSpacingLat /\ HalfSpacingLonCircle

\* C3 amended: when the query coordinate lies between two nodes of the
\* axis as the script holds it, the node found differs from the query, as
\* a plain difference, by at most half the distance of those two nodes.
C3_HalfSpacingInsideSpan ==
    pc = "located" => HalfSpacingLat /\ HalfSpacingLonLine

\* C3 witness: a query strictly between two different nodes on both axes.
C3_Witness ==
    /\ pc = "located"
    /\ \E i, j \in 1..Len(mlat) : mlat[i] < qlat /\ qlat < mlat[j]
    /\ \E i, j \in 1..Len(mlon) : mlon[i] < qlon /\ qlon < mlon[j]

----------------------------------------------------------------------------
(* Claims about quality control and the selection of records (SpecQC) *)

InClosed(x, lo, hi) == Num(x) /\ lo <= x /\ x <= hi
InHalfOpen(x, lo, hi) == Num(x) /\ lo <= x /\ x < hi
InOpen(x, lo, hi) == Num(x) /\ lo < x /\ x < hi

BuoyQCStep == prog = "buoy" /\ pc = "qc" /\ pc' = "clean"
SatQCStep == prog = "sat" /\ pc = "qc" /\ pc' = "done"

SameShape(new, old) ==
    /\ Len(new) = Len(old)
    /\ \A s \in 1..Len(old) : Len(new[s]) = Len(old[s])

\* new holds the values of old that satisfy Keep and NaN elsewhere.
FilteredBy(new, old, Keep(_)) ==
    /\ SameShape(new, old)
    /\ \A s \in 1..Len(old) : \A k \in 1..Len(old[s]) :
          new[s][k] = IF Keep(old[s][k]) THEN old[s][k] ELSE NaN

\* C4 as stated: every (station, timestep) cell of the buoy output and
\* every row of the satellite output has a model value and an observation
\* value that are both present and within the quality-control range.
C4_EveryCellPaired ==
    ncfile # Unset =>
        IF prog = "buoy"
        THEN /\ Len(ncfile.buoyID) > 0
             /\ \A s \in 1..Len(ncfile.buoyID) : \A k \in 1..Len(ncfile.time) :
                   /\ InClosed(ncfile.model_hs[s][k], HsMin, HsMax)
                   /\ InClosed(ncfile.obs_hs[s][k], HsMin, HsMax)
        ELSE /\ Len(ncfile) > 0
             /\ \A k \in 1..Len(ncfile) :
                   /\ InOpen(ncfile[k].fwhs, SatMin, SatHsMax)
                   /\ InOpen(ncfile[k].fshs, SatMin, SatHsMax)
                   /\ InOpen(ncfile[k].fwwnd, SatMin, SatWndMax)
                   /\ InOpen(ncfile[k].fswnd, SatMin, SatWndMax)

\* C4 amended: every row of the satellite output has model and satellite
\* values that are present and passed quality control; every station of
\* the buoy output has a position, at least one timestep with a model
\* height that is present and passed quality control and at least one
\* timestep with such a buoy height (single cells of a station may be
\* missing); an output is written only with at least one station or row,
\* so none is written when every observation value is missing.
C4_EveryStationAndRowPaired ==
    ncfile # Unset =>
        IF prog = "buoy"
        THEN /\ Len(ncfile.buoyID) > 0
             /\ \A s \in 1..Len(ncfile.buoyID) :
                   /\ Num(ncfile.latitude[s]) /\ Num(ncfile.longitude[s])
                   /\ \E k \in 1..Len(ncfile.time) :
                         InClosed(ncfile.model_hs[s][k], HsMin, HsMax)
                   /\ \E k \in 1..Len(ncfile.time) :
                         InClosed(ncfile.obs_hs[s][k], HsMin, HsMax)
        ELSE /\ Len(ncfile) > 0
             /\ \A k \in 1..Len(ncfile) :
                   /\ InOpen(ncfile[k].fwhs, SatMin, SatHsMax)
                   /\ InOpen(ncfile[k].fshs, SatMin, SatHsMax)
                   /\ InOpen(ncfile[k].fwwnd, SatMin, SatWndMax)
                   /\ InOpen(ncfile[k].fswnd, SatMin, SatWndMax)

\* C4 witness: a buoy output from which a station was removed and in which
\* a station that was kept has a missing buoy height at some timestep.
C4_Witness ==
    /\ prog = "buoy" /\ pc = "done" /\ ncfile # Unset
    /\ Len(ncfile.buoyID) < MaxStations
    /\ \E s \in 1..Len(ncfile.buoyID) : \E k \in 1..Len(ncfile.time) :
          IsNaN(ncfile.obs_hs[s][k])

\* C5 as stated: the buoy script keeps a height iff 0 <= h < 30, a period
\* iff 0 <= T < 40, a direction iff -180 <= d < 360, and replaces every
\* other value, the upper limit included, by missing.
C5_UpperLimitRemoved ==
    [][BuoyQCStep =>
        /\ FilteredBy(bhs', bhs, LAMBDA x : InHalfOpen(x, HsMin, HsMax))
        /\ FilteredBy(mhs', mhs, LAMBDA x : InHalfOpen(x, HsMin, HsMax))
        /\ FilteredBy(btm', btm, LAMBDA x : InHalfOpen(x, TmMin, TmMax))
        /\ FilteredBy(mtm', mtm, LAMBDA x : InHalfOpen(x, TmMin, TmMax))
        /\ FilteredBy(bdm', bdm, LAMBDA x : InHalfOpen(x, DmMin, DmMax))
        /\ FilteredBy(mdm', mdm, LAMBDA x : InHalfOpen(x, DmMin, DmMax))]_vars

\* C5 amended: the buoy script keeps a height iff 0 <= h <= 30, a period
\* iff 0 <= T <= 40, a direction iff -180 <= d <= 360 (a value equal to the
\* upper limit is kept), and replaces every other value by missing.
C5_UpperLimitKept ==
    [][BuoyQCStep =>
        /\ FilteredBy(bhs', bhs, LAMBDA x : InClosed(x, HsMin, HsMax))
        /\ FilteredBy(mhs', mhs, LAMBDA x : InClosed(x, HsMin, HsMax))
        /\ FilteredBy(btm', btm, LAMBDA x : InClosed(x, TmMin, TmMax))
        /\ FilteredBy(mtm', mtm, LAMBDA x : InClosed(x, TmMin, TmMax))
        /\ FilteredBy(bdm', bdm, LAMBDA x : InClosed(x, DmMin, DmMax))
        /\ FilteredBy(mdm', mdm, LAMBDA x : InClosed(x, DmMin, DmMax))]_vars

\* C5 witness: after quality control a station has a buoy height, period
\* and direction equal to the upper limits next to values that were
\* replaced by missing.
C5_Witness ==
    /\ prog = "buoy" /\ pc = "clean"
    /\ \E s \in 1..Len(bhs) : \E k1, k2 \in 1..Len(bhs[s]) :
          /\ bhs[s][k1] = HsMax /\ btm[s][k1] = TmMax /\ bdm[s][k1] = DmMax
          /\ IsNaN(bhs[s][k2]) /\ IsNaN(btm[s][k2]) /\ IsNaN(bdm[s][k2])

\* The rows of the candidate records that satisfy Keep, in order.
RowsThat(Keep(_)) == SelectSeq(f, Keep)

\* The satellite output is made of exactly the records that satisfy Keep.
SatOutputIs(Keep(_)) ==
    IF Len(RowsThat(Keep)) > 0
    THEN ncfile' = RowsThat(Keep)
    ELSE ncfile' = Unset

\* C6 as stated: a candidate record passes iff its model and satellite
\* heights satisfy 0 <= h < 20 and its model and satellite wind speeds
\* satisfy 0 <= w < 60.
C6_ZeroPasses ==
    [][SatQCStep =>
        SatOutputIs(LAMBDA r :
            /\ InHalfOpen(r.fwhs, SatMin, SatHsMax)
            /\ InHalfOpen(r.fshs, SatMin, SatHsMax)
            /\ InHalfOpen(r.fwwnd, SatMin, SatWndMax)
            /\ InHalfOpen(r.fswnd, SatMin, SatWndMax))]_vars

\* C6 amended: a candidate record passes iff its model and satellite
\* heights satisfy 0 < h < 20 and its model and satellite wind speeds
\* satisfy 0 < w < 60: a value of exactly 0.0 fails, as does a value at the
\* upper limit.
C6_ZeroFails ==
    [][SatQCStep =>
        SatOutputIs(LAMBDA r :
            /\ InOpen(r.fwhs, SatMin, SatHsMax)
            /\ InOpen(r.fshs, SatMin, SatHsMax)
            /\ InOpen(r.fwwnd, SatMin, SatWndMax)
            /\ InOpen(r.fswnd, SatMin, SatWndMax))]_vars

\* C6 witness: a satellite output that holds some of the candidate
\* records and not all of them.
C6_Witness ==
    /\ prog = "sat" /\ pc = "done" /\ ncfile # Unset
    /\ Len(ncfile) < c

\* The quality-control step of the buoy script keeps the shape of the six
\* arrays and every element is either unchanged or replaced by NaN; the
\* stations, their positions and the times are untouched.
BuoyQCKeepsElements ==
    /\ \A pair \in {<<bhs', bhs>>, <<btm', btm>>, <<bdm', bdm>>,
                     <<mhs', mhs>>, <<mtm', mtm>>, <<mdm', mdm>>} :
          /\ SameShape(pair[1], pair[2])
          /\ \A s \in 1..Len(pair[2]) : \A k \in 1..Len(pair[2][s]) :
                pair[1][s][k] = pair[2][s][k] \/ IsNaN(pair[1][s][k])
    /\ \A s \in 1..Len(bhs) : \A k \in 1..Len(bhs[s]) :
          InClosed(bhs[s][k], HsMin, HsMax) => bhs'[s][k] = bhs[s][k]
    /\ UNCHANGED <<stname, lat, lon, mtime>>

\* The station selection removes whole stations and nothing else: a
\* station with a position, a model height and a buoy height is kept, and
\* the rows of the stations kept are unchanged.
CleanKeepsRows ==
    \A s \in 1..Len(stname) :
        (/\ Num(lat[s]) /\ Num(lon[s])
         /\ \E k \in 1..Len(bhs[s]) : Num(bhs[s][k])
         /\ \E k \in 1..Len(mhs[s]) : Num(mhs[s][k]))
        => \E j \in 1..Len(stname') :
              /\ stname'[j] = stname[s]
              /\ bhs'[j] = bhs[s] /\ btm'[j] = btm[s] /\ bdm'[j] = bdm[s]
              /\ mhs'[j] = mhs[s] /\ mtm'[j] = mtm[s] /\ mdm'[j] = mdm[s]

\* C7 as stated: in both scripts the quality-control step removes no
\* element, every array has the same shape after it as before.
C7_QCNeverRemoves ==
    [][(pc = "qc" /\ pc' # "qc") =>
        IF prog = "buoy"
        THEN BuoyQCKeepsElements
        ELSE Len(f') = Len(f)]_vars

\* C7 amended: in the buoy script the quality-control step removes no
\* element (same shapes, a value in range unchanged at its index, a
\* failing value replaced by missing at its index), stations are removed
\* only by the later selection step, which keeps the other timesteps of a
\* station that still has a buoy and a model height; the quality control
\* of the satellite script removes the failing records themselves.
C7_BuoyQCNeverRemoves ==
    [][/\ BuoyQCStep => BuoyQCKeepsElements
       /\ (prog = "buoy" /\ pc = "clean") => CleanKeepsRows
       /\ (prog = "buoy" /\ Len(stname') # Len(stname)) => pc = "clean"
       /\ (SatQCStep /\ ncfile' # Unset) => Len(f') = Len(RowsThat(SatPass))]_vars

\* C7 witness: after the quality control of the buoy script all stations
\* are still there and one of them has a buoy height replaced by missing
\* at one timestep next to a height that was kept.
C7_Witness ==
    /\ prog = "buoy" /\ pc = "clean"
    /\ Len(bhs) = MaxStations
    /\ \A s \in 1..Len(mhs) : \A k \in 1..Len(mhs[s]) : Num(mhs[s][k])
    /\ \E k1, k2 \in 1..Len(bhs[1]) : IsNaN(bhs[1][k1]) /\ Num(bhs[1][k2])

----------------------------------------------------------------------------
(* Claims about the model read loop of the buoy script (SpecRead) *)

\* The files of a list that open, in list order.
Openable(files) == SelectSeq(files, LAMBDA x : x.ok)

RECURSIVE ConcatTimes(_)
ConcatTimes(files) ==
    IF files = <<>> THEN <<>>
    ELSE files[1].time \o ConcatTimes(Tail(files))

RECURSIVE ConcatColumns(_, _)
ConcatColumns(files, s) ==
    IF files = <<>> THEN <<>>
    ELSE files[1].hs[s] \o ConcatColumns(Tail(files), s)

\* C10: a model file that cannot be opened, wherever it is in the list,
\* is skipped and the files that remain are processed: the run goes on to
\* the buoys with the series it would have built had the failing file
\* been absent from the list.
C10_UnopenableSkipped ==
    (Openable(wlist) # <<>>) =>
        /\ pc # "crash"
        /\ pc = "buoys" =>
              /\ mtime = ConcatTimes(Openable(wlist))
              /\ \A s \in 1..Len(mhs) : mhs[s] = ConcatColumns(Openable(wlist), s)

----------------------------------------------------------------------------
(* Claims about the matching loops (Spec) *)

\* |x - y| < 1800 s.
Within(x, y) == (x - y < 1800) /\ (y - x < 1800)

\* The series of observations the station of a pass of the buoy loop has:
\* that of the NDBC file, or else that of the Copernicus file.
SeriesOf(e) == IF e.ndbc.ok THEN e.ndbc ELSE e.copern

\* Model file n was opened, passed the grid check and was worked through.
Completed(n) == wlist[n].ok /\ ~(n = t /\ pc \in {"exit", "crash"})

\* C1 as stated: in both scripts a model time a and an observation time b
\* are matched if |a - b| < 1800 s and are not matched if |a - b| >= 1800 s.
C1_WindowPairsUsed ==
    /\ prog = "buoy" =>
          \A s \in 1..b : \A k \in 1..Len(mtime) :
             \A j \in 1..Len(SeriesOf(bfile[s]).time) :
                (<<s, k, j>> \in used) <=> Within(mtime[k], SeriesOf(bfile[s]).time[j])
    /\ prog = "sat" =>
          \A n \in 1..t : Completed(n) =>
             \A a \in Range(wlist[n].time) : \A j \in 1..Len(stime) :
                (<<n, a, j>> \in used) <=> Within(a, stime[j])

\* C1 amended: no pair with |a - b| >= 1800 s is ever matched; in the buoy
\* script a pair with |a - b| < 1800 s is matched exactly when the series
\* of the station was read from the NDBC file; in the satellite script
\* exactly when the model time a, of a file that was opened and passed the
\* grid check, is itself the time of some satellite sample.
C1_WindowPairsUsedWhenSearched ==
    /\ prog = "buoy" =>
          /\ \A u \in used :
                /\ bfile[u[1]].ndbc.ok
                /\ Within(mtime[u[2]], bfile[u[1]].ndbc.time[u[3]])
          /\ \A s \in 1..b : \A k \in 1..Len(mtime) :
                \A j \in 1..Len(bfile[s].ndbc.time) :
                   Within(mtime[k], bfile[s].ndbc.time[j]) => <<s, k, j>> \in used
    /\ prog = "sat" =>
          /\ \A u \in used :
                /\ wlist[u[1]].ok
                /\ u[2] \in Range(wlist[u[1]].time) \cap Range(stime)
                /\ Within(u[2], stime[u[3]])
          /\ \A n \in 1..t : Completed(n) =>
                \A a \in Range(wlist[n].time) \cap Range(stime) :
                   \A j \in 1..Len(stime) :
                      Within(a, stime[j]) => <<n, a, j>> \in used

\* C1 witness: the satellite script has matched a model time with a sample
\* within the window, and left out a sample whose time differs from that
\* model time by exactly 1800 s.
C1_Witness ==
    /\ prog = "sat"
    /\ \E u \in used : \E j \in 1..Len(stime) :
          /\ Abs(u[2] - stime[j]) = 1800
          /\ <<u[1], u[2], j>> \notin used

\* C8: a station whose NDBC file cannot be read and whose Copernicus file
\* can has the observations of the Copernicus file matched with the model
\* times as those of an NDBC file are.
C8_FallbackMatched ==
    (prog = "buoy" /\ pc \in {"buoys", "qc"}) =>
        \A s \in 1..b :
            (~bfile[s].ndbc.ok /\ bfile[s].copern.ok /\ Len(bfile[s].copern.hs) > 0) =>
                /\ bhs[s] = MatchRow(bfile[s].copern.time, bfile[s].copern.hs)
                /\ btm[s] = MatchRow(bfile[s].copern.time, bfile[s].copern.tm)
                /\ bdm[s] = MatchRow(bfile[s].copern.time, bfile[s].copern.dm)

\* C9: a model file that was opened and whose latitudes or whose
\* normalised longitudes differ from those of the grid, be it on one axis
\* only, ends the run before any record is made from it.
C9_EitherAxisAborts ==
    prog = "sat" =>
        \A n \in 1..t :
            (/\ wlist[n].ok
             /\ \/ wlist[n].latitude # mlat
                \/ NormalizedLon(wlist[n].longitude) # mlon) =>
                /\ n = t /\ pc = "exit"
                /\ \A u \in used : u[1] # n

----------------------------------------------------------------------------
(* Claims about the end of the run (SpecQC) *)

\* C11: in both scripts a run in which no matchup survives quality control
\* and the selection ends with sys.exit and writes no output file, so a run
\* that ends normally has written an output file that holds matchups.
C11_EmptyResultFatal ==
    pc = "done" =>
        /\ ncfile # Unset
        /\ prog = "buoy" => Len(ncfile.buoyID) > 0
        /\ prog = "sat" => Len(ncfile) > 0

----------------------------------------------------------------------------
(* Claims about the aggregation of the model files (SpecRead) *)

\* The number of time steps of the files before file n of the list.
Offset(n) == SumSeq([i \in 1..(n - 1) |-> Len(wlist[i].time)])

\* The files are sorted, disjoint and listed in time order.
InTimeOrder ==
    /\ \A n \in 1..Len(wlist) : StrictlyIncreasing(wlist[n].time)
    /\ \A n \in 1..(Len(wlist) - 1) :
          (Len(wlist[n].time) > 0 /\ Len(wlist[n + 1].time) > 0) =>
              wlist[n].time[Len(wlist[n].time)] < wlist[n + 1].time[1]

\* C16: when all the model files of the buoy script open, the merged time
\* axis is the per-file time axes one after the other in list order, as
\* long as their lengths together; time step k of file n is column
\* Offset(n)+k of time and of every variable; and the merged times
\* increase when the files are sorted, disjoint and listed in time order.
C16_SeriesConcatenated ==
    (pc = "buoys" /\ \A n \in 1..Len(wlist) : wlist[n].ok) =>
        /\ Len(mtime) = Offset(Len(wlist) + 1)
        /\ \A s \in 1..Len(stname) :
              /\ Len(mhs[s]) = Len(mtime)
              /\ Len(mtm[s]) = Len(mtime)
              /\ Len(mdm[s]) = Len(mtime)
        /\ \A n \in 1..Len(wlist) : \A k \in 1..Len(wlist[n].time) :
              /\ mtime[Offset(n) + k] = wlist[n].time[k]
              /\ \A s \in 1..Len(stname) :
                    /\ mhs[s][Offset(n) + k] = wlist[n].hs[s][k]
                    /\ mtm[s][Offset(n) + k] = wlist[n].tr[s][k]
                    /\ mdm[s][Offset(n) + k] = wlist[n].th1m[s][k]
        /\ InTimeOrder => StrictlyIncreasing(mtime)

\* C16 witness: two files that opened were merged, the later one listed
\* first, and the merged time axis is in list order, not in time order.
C16_Witness ==
    /\ pc = "buoys" /\ Len(wlist) = MaxFiles
    /\ \A n \in 1..Len(wlist) : wlist[n].ok
    /\ mtime[1] > mtime[Len(mtime)]
    /\ mhs[1][1] # mhs[1][Len(mtime)]

----------------------------------------------------------------------------
(* Claims about the longitude conversions (SpecLon) *)

\* C20: for every longitude in [-360, 360], adding 360 to negative values
\* leaves a longitude it was already applied to unchanged, and so does
\* subtracting 360 from values above 180.
C20_ConversionsIdempotent ==
    [][/\ pc = "alon" => qlon' = qlon
       /\ pc = "signed" => (lon' = lon /\ slon' = slon)]_vars

\* C20 witness: both conversions of the buoy script were applied twice to
\* a longitude that one of them changed.
C20_Witness ==
    /\ prog = "buoy" /\ pc = "signed again"
    /\ qlon = lon[1] + 360

----------------------------------------------------------------------------
(* Claims about the buoy script with hourly series (SpecHourly) *)

\* The (station, time) cells of the output that hold a model height and a
\* buoy height.
OutputPairs ==
    {u \in (1..Len(ncfile.buoyID)) \X (1..Len(ncfile.time)) :
        Num(ncfile.model_hs[u[1]][u[2]]) /\ Num(ncfile.obs_hs[u[1]][u[2]])}

\* C19: with one model series of hourly samples (48 in the scenario) of a
\* constant height and one buoy with samples of a constant height at the
\* same times, the run ends with an output of exactly one matched pair
\* per hour, each with the model height and the buoy height.
C19_HourlyScenario ==
    /\ pc \notin {"exit", "crash"}
    /\ pc = "done" =>
          /\ ncfile.time = wlist[1].time
          /\ Len(ncfile.buoyID) = 1
          /\ Cardinality(OutputPairs) = Len(wlist[1].time)
          /\ \A k \in 1..Len(wlist[1].time) :
                /\ ncfile.model_hs[1][k] = wlist[1].hs[1][k]
                /\ ncfile.obs_hs[1][k] = bfile[1].ndbc.hs[k]

\* C19 witness: the output of the scenario of 48 hours, with a buoy height
\* that differs from the model height.
C19_Witness ==
    /\ pc = "done"
    /\ Len(ncfile.time) = 48
    /\ Cardinality(OutputPairs) = 48
    /\ ncfile.model_hs[1][48] # ncfile.obs_hs[1][48]

----------------------------------------------------------------------------
(* Claims about the output of the matching loops (Spec) *)

\* The longitudes of the output file.
OutputLons ==
    IF prog = "buoy" THEN Range(ncfile.longitude)
    ELSE {ncfile[k].flon : k \in 1..Len(ncfile)}

\* C15 as stated: every longitude of the output of both scripts lies in
\* [-180, 180): none is 180 or more, none is below -180.
C15_OutputLonBelow180 ==
    ncfile # Unset => \A x \in OutputLons : -180 <= x /\ x < 180

\* C15 amended: every longitude of the output of both scripts lies in
\* [-180, 180]; a longitude above 180 is written 360 lower and a longitude
\* of exactly 180 is written as 180.
C15_OutputLonUpTo180 ==
    ncfile # Unset =>
        /\ \A x \in OutputLons : -180 <= x /\ x <= 180
        /\ prog = "buoy" =>
              \A s \in 1..Len(ncfile.buoyID) :
                 LET x == StationLon(ncfile.buoyID[s])
                 IN  ncfile.longitude[s] = IF x > 180 THEN x - 360 ELSE x
        /\ prog = "sat" =>
              \A x \in OutputLons : \E i \in 1..Len(GridLonFile) :
                 x = IF GridLonFile[i] > 180 THEN GridLonFile[i] - 360
                     ELSE GridLonFile[i]

\* C15 witness: an output of the buoy script with a station whose
\* longitude was above 180 and a station at 180.
C15_Witness ==
    /\ prog = "buoy" /\ ncfile # Unset
    /\ \E x, y \in OutputLons : x < 0 /\ y = 180

\* The index of node v of a grid axis.
NodeIndex(grid, v) == CHOOSE i \in 1..Len(grid) : grid[i] = v

\* The nearest grid cell of satellite sample j is not flagged valid.
OnMaskedCell(j) ==
    mask[NearestIndex(mlat, slat[j])][NearestIndex(mlon, slon[j])] # 1

\* C18: a satellite sample whose nearest grid cell is not flagged valid in
\* the mask never makes a record: every record, candidate or written to
\* the output, lies on a cell that is flagged valid, and the samples it
\* can stem from are not on an invalid cell.
C18_MaskedCellNoRecord ==
    prog = "sat" =>
        \A k \in 1..Len(f) : Num(f[k].flat) =>
            /\ mask[NodeIndex(mlat, f[k].flat)][NodeIndex(mlon, f[k].flon)] = 1
            /\ \A j \in 1..Len(stime) :
                  (/\ mlat[NearestIndex(mlat, slat[j])] = f[k].flat
                   /\ mlon[NearestIndex(mlon, slon[j])] = f[k].flon) =>
                      ~OnMaskedCell(j)

\* C18 witness: the satellite script wrote an output, and a sample on an
\* invalid cell that was within the window of a model time is not in it.
C18_Witness ==
    /\ prog = "sat" /\ pc = "done" /\ ncfile # Unset
    /\ \E u \in used : OnMaskedCell(u[3])

\* The code of the cyclone map at the slice nearest in time to x among
\* those within the tolerance, NaN when there is none.
NearestSliceCode(x, ilat, ilon) ==
    IF CycloneSliceNearest(x) = 0 THEN NaN
    ELSE cmap[CycloneSliceNearest(x)][ilat][ilon]

\* Model time x has more than one slice of the cyclone map within the
\* tolerance.
SeveralSlices(x) == Len(CycloneIndexes(x)) > 1

\* C12: when more than one slice of the cyclone map lies within 5400 s of
\* a model time, the code attached to a record is that of the slice
\* closest in time: in the buoy output for every station and time (after
\* the negative codes are removed), in the satellite script for every
\* candidate record.
C12_ClosestSlice ==
    /\ (prog = "buoy" /\ pc = "done" /\ ctime # Unset) =>
          \A s \in 1..Len(ncfile.cyclone) : \A n \in 1..Len(mtime) :
             SeveralSlices(mtime[n]) =>
                ncfile.cyclone[s][n] =
                   NoNegative(NearestSliceCode(mtime[n],
                                  StationLatIndex(s), StationLonIndex(s)))
    /\ (prog = "sat" /\ pc \in {"files", "qc"}) =>
          \A k \in 1..c : SeveralSlices(f[k].ftime) =>
             f[k].fcmap =
                NearestSliceCode(f[k].ftime, NodeIndex(mlat, f[k].flat),
                                 NodeIndex(mlon, f[k].flon))

\* Model time x has no slice of the cyclone map within the tolerance.
NoSlice(x) == Len(CycloneIndexes(x)) = 0

\* C13: for a model time with no slice of the cyclone map within 5400 s,
\* the run goes on and the records of that time are written with their
\* model and observation values and with "no data" (NaN) as their cyclone
\* attribute, in the output of both scripts.
C13_NoSliceIsNoData ==
    /\ (prog = "buoy" /\ pc = "done" /\ ctime # Unset) =>
          \A s \in 1..Len(ncfile.cyclone) : \A n \in 1..Len(mtime) :
             NoSlice(mtime[n]) =>
                /\ IsNaN(ncfile.cyclone[s][n])
                /\ ncfile.model_hs[s][n] = mhs[s][n]
                /\ ncfile.obs_hs[s][n] = bhs[s][n]
    /\ (prog = "sat" /\ pc = "done" /\ ncfile # Unset) =>
          \A k \in 1..Len(ncfile) : NoSlice(ncfile[k].ftime) =>
             /\ IsNaN(ncfile[k].fcmap)
             /\ Num(ncfile[k].fwhs) /\ Num(ncfile[k].fshs)

\* The cyclone codes of the output file.
OutputCodes ==
    IF prog = "buoy"
    THEN {ncfile.cyclone[s][n] : s \in 1..Len(ncfile.cyclone), n \in 1..Len(mtime)}
    ELSE {ncfile[k].fcmap : k \in 1..Len(ncfile)}

\* C14: no record of the output of either script carries a negative
\* cyclone code.
C14_NoNegativeCode ==
    (ncfile # Unset /\ ctime # Unset) => \A x \in OutputCodes : ~LT(x, 0)

\* Record r carries the cycle of model file file: its cycle time is the
\* lowest time of the file, its time is a time of the file, and its lead
\* time is not negative and not above the time span of the file.
CycleFrom(r, file) ==
    /\ file.ok
    /\ r.fcycle = MinOf(file.time)
    /\ r.ftime \in Range(file.time)
    /\ 0 <= r.ftime - r.fcycle
    /\ r.ftime - r.fcycle <= MaxOf(file.time) - MinOf(file.time)

\* C17: in forecast mode of the satellite script, every record written
\* while a model file is processed carries the cycle of that file, the
\* records written from earlier files stay as they are, and every record
\* of the output is one of these records with its time and cycle.
C17_CycleIsFileMinimum ==
    [][(prog = "sat" /\ forecastds > 0) =>
          /\ pc = "files" =>
                /\ \A k \in 1..c : f'[k] = f[k]
                /\ \A k \in (c + 1)..c' : CycleFrom(f'[k], wlist[t'])
          /\ (pc = "qc" /\ ncfile' # Unset) =>
                /\ \A k \in 1..c : \E i \in 1..t : CycleFrom(f[k], wlist[i])
                /\ \A k \in 1..Len(ncfile') : \E j \in 1..c :
                      /\ ncfile'[k].fcycle = f[j].fcycle
                      /\ ncfile'[k].ftime = f[j].ftime
                      /\ ncfile'[k].fwhs = f[j].fwhs
                      /\ ncfile'[k].fshs = f[j].fshs]_vars

\* A forecast run ends with an output that holds records of two cycles,
\* one of them with a positive lead time.
C17_Witness ==
    /\ prog = "sat" /\ pc = "done" /\ forecastds > 0 /\ ncfile # Unset
    /\ \E k, j \in 1..Len(ncfile) :
          /\ ncfile[k].fcycle < ncfile[j].fcycle
          /\ ncfile[k].ftime > ncfile[k].fcycle

\* C21: the quality control is idempotent.  After the range filter of the
\* buoy script, the filter applied to its own result changes none of the
\* six arrays; after the selection of the satellite script, the selection
\* applied to the selected records keeps every one of them.
C21_QCIdempotent ==
    [][pc = "qc" =>
          /\ prog = "buoy" =>
                /\ QCArray(bhs', HsMin, HsMax) = bhs'
                /\ QCArray(btm', TmMin, TmMax) = btm'
                /\ QCArray(bdm', DmMin, DmMax) = bdm'
                /\ QCArray(mhs', HsMin, HsMax) = mhs'
                /\ QCArray(mtm', TmMin, TmMax) = mtm'
                /\ QCArray(mdm', DmMin, DmMax) = mdm'
          /\ (prog = "sat" /\ ncfile' # Unset) =>
                Where(Len(f'), LAMBDA k : SatPass(f'[k])) =
                   [k \in 1..Len(f') |-> k]]_vars

\* The filter of the buoy script has replaced a value by NaN, and the
\* selection of the satellite script has removed a record.
C21_Witness ==
    \/ /\ prog = "buoy" /\ pc = "clean"
       /\ \E s \in 1..Len(bhs) : \E k \in 1..Len(bhs[s]) :
             IsNaN(bhs[s][k]) /\ \E n \in 1..Len(mhs[s]) : IsNaN(mhs[s][n])
    \/ /\ prog = "sat" /\ pc = "done" /\ ncfile # Unset
       /\ Len(ncfile) < c

\* The mission of the file a sample or record with satellite wave height
\* x was read from.
MissionOfHs(x) == x - SatHsBase

\* C22: while and after the satellite files are read, the mission ids are
\* as many as the sample times and the id at every sample index is the
\* mission of the file of the sample; this also holds after the samples
\* near the model times are selected, and for every record of the output.
C22_MissionAligned ==
    (prog = "sat" /\ slist # Unset /\ pc \in {"slist", "subset", "files", "qc", "done"}) =>
        /\ Len(sid) = Len(stime)
        /\ \A k \in 1..Len(stime) : sid[k] = MissionOfHs(shs[k])
        /\ ncfile # Unset =>
              \A k \in 1..Len(ncfile) : ncfile[k].fsid = MissionOfHs(ncfile[k].fshs)

\* The cell of the grid nearest to a position, as row and column.
CellOf(y, x) == <<NearestIndex(mlat, y), NearestIndex(mlon, To360(x))>>

\* C23: with grid and cyclone information, the cyclone code written for
\* a station of the output and a model time is the code of the cyclone
\* map at the grid cell nearest to the position of that station, also
\* when stations before it were removed.
C23_CodeOfOwnCell ==
    (prog = "buoy" /\ pc = "done" /\ ctime # Unset) =>
        \A s \in 1..Len(ncfile.buoyID) : \A n \in 1..Len(mtime) :
           ncfile.cyclone[s][n] =
              NoNegative(CycloneCode(mtime[n],
                  CellOf(ncfile.latitude[s], ncfile.longitude[s])[1],
                  CellOf(ncfile.latitude[s], ncfile.longitude[s])[2]))

\* C24: with grid information, every station of the output lies on a
\* grid cell that the mask flags valid.
C24_OutputOnValidCell ==
    (prog = "buoy" /\ pc = "done" /\ mlat # Unset) =>
        \A s \in 1..Len(ncfile.buoyID) :
           mask[CellOf(ncfile.latitude[s], ncfile.longitude[s])[1]]
               [CellOf(ncfile.latitude[s], ncfile.longitude[s])[2]] = 1

\* Station s has depth and coast distance at its grid cell.
Covered(s) ==
    /\ ~IsNaN(depth[CellOf(lat[s], lon[s])[1]][CellOf(lat[s], lon[s])[2]])
    /\ ~IsNaN(distcoast[CellOf(lat[s], lon[s])[1]][CellOf(lat[s], lon[s])[2]])

\* The stations to keep: all of them without grid information, the
\* covered ones with it, in their order.
KeptStations ==
    SelectSeq([s \in 1..Len(lat) |-> s], LAMBDA s : mlat = Unset \/ Covered(s))

\* C25: when the grid and output stage writes the output, the stations
\* of the output are, in their order, all stations when no grid
\* information is requested and else exactly those with depth and coast
\* distance at their grid cell; names, positions, the six series, depth,
\* coast distance and region ids all hold these stations in this order.
\* When no station is left, the run ends without output.
C25_CoveredStationsKept ==
    [][(prog = "buoy" /\ pc = "save") =>
          /\ pc' = "done" <=> Len(KeptStations) > 0
          /\ pc' = "done" =>
                /\ ncfile'.buoyID = Pick(stname, KeptStations)
                /\ ncfile'.latitude = Pick(lat, KeptStations)
                /\ ncfile'.longitude =
                      [k \in 1..Len(KeptStations) |-> ToSigned(lon[KeptStations[k]])]
                /\ ncfile'.model_hs = Pick(mhs, KeptStations)
                /\ ncfile'.model_tm = Pick(mtm, KeptStations)
                /\ ncfile'.model_dm = Pick(mdm, KeptStations)
                /\ ncfile'.obs_hs = Pick(bhs, KeptStations)
                /\ ncfile'.obs_tm = Pick(btm, KeptStations)
                /\ ncfile'.obs_dm = Pick(bdm, KeptStations)
                /\ mlat # Unset =>
                      \A k \in 1..Len(KeptStations) :
                         LET cell == CellOf(lat[KeptStations[k]], lon[KeptStations[k]])
                         IN  /\ ncfile'.depth[k] = depth[cell[1]][cell[2]]
                             /\ ncfile'.distcoast[k] = distcoast[cell[1]][cell[2]]
                             /\ ncfile'.GlobalOceansSeas[k] = oni[cell[1]][cell[2]]
                             /\ ncfile'.HighSeasMarineZones[k] = hsmz[cell[1]][cell[2]]]_vars

\* An output with grid information that lacks the first station and
\* holds all the others.
C25_Witness ==
    /\ prog = "buoy" /\ pc = "done" /\ mlat # Unset
    /\ Len(ncfile.buoyID) > 0
    /\ ncfile.buoyID[1] # 1
    /\ \A k \in 1..Len(ncfile.depth) : ~IsNaN(ncfile.depth[k])
    /\ Len(ncfile.buoyID) = GridStations - 1

\* C26: in both scripts, when the latitudes or the longitudes of the
\* cyclone map differ from those of the gridinfo file, on one axis or on
\* both, the check ends the run before a model file is read or matched;
\* when both are equal the run goes on.  So a model file is only ever
\* read with a cyclone map that is on the grid.
C26_CycloneGridChecked ==
    [][/\ pc = "cyclonemap" =>
             /\ t = 0 /\ c = 0 /\ used = {}
             /\ (clat # mlat \/ clon # mlon) => (pc' = "exit" /\ t' = 0 /\ c' = 0)
             /\ (clat = mlat /\ clon = mlon) => pc' \in {"model", "slist"}
       /\ t' > 0 => (clat' = mlat' /\ clon' = mlon')]_vars

\* The satellite script has ended at the check of a cyclone map that
\* differs from the grid in its longitudes only.
C26_Witness ==
    /\ prog = "sat" /\ pc = "exit" /\ t = 0 /\ sfile = 0
    /\ clat = mlat /\ clon # mlon /\ Len(clon) = Len(mlon)

\* C27: in the satellite script the candidate records of a model file
\* always fit the preallocated arrays: the record count never goes past
\* the capacity, and no pass of the loop over the model files ends with a
\* write past the end of the arrays.
C27_CapacitySuffices ==
    prog = "sat" =>
        /\ (pc \in {"files", "qc"} /\ f # Unset) => c <= Len(f)
        /\ (pc = "files" /\ t < Len(wlist) /\ wlist[t + 1].ok) =>
              ~Overflows(wlist[t + 1], Intersect1dIndexes(wlist[t + 1].time))

\* The elements of q are all different.
Distinct(q) == \A i, j \in 1..Len(q) : i # j => q[i] # q[j]

\* C28: the model times aggregated from the files of the list hold no
\* time twice, whatever the list, when no single file does.
C28_NoDuplicateTimes ==
    (prog = "buoy" /\ pc \in {"model", "buoys"} /\ mtime # Unset) =>
        ((\A k \in 1..t : Distinct(wlist[k].time)) => Distinct(mtime))

\* The satellite samples that make a record at model time x: those within
\* the window on a valid cell, in the order of the sample list.
SamplesAt(x) ==
    SelectSeq([j \in 1..Len(stime) |-> j],
              LAMBDA j : /\ InWindow(stime[j], x)
                         /\ CellValid(NearestIndex(mlat, slat[j]),
                                      NearestIndex(mlon, slon[j])))

\* C29: the satellite script goes through the model files in the order
\* of the list, one file a pass.  The records of a pass have times of
\* that file that some sample has too, in non-decreasing order whatever
\* the order of the samples; and when the pass does not run out of
\* space, every such time has its records once, one for every sample
\* that matches, in the order of the sample list.
C29_RecordsInModelTimeOrder ==
    [][(prog = "sat" /\ pc = "files") =>
          /\ t' = t + 1
          /\ \A k \in 1..c : f'[k] = f[k]
          /\ LET file == wlist[t']
                 new == SubSeq(f', c + 1, c')
                 matched == Range(file.time) \cap Range(stime)
             IN  /\ NonDecreasing([k \in 1..Len(new) |-> new[k].ftime])
                 /\ \A k \in 1..Len(new) : new[k].ftime \in matched
                 /\ pc' \in {"files", "qc"} =>
                       \A x \in matched :
                          LET at == SelectSeq(new, LAMBDA r : r.ftime = x)
                          IN  /\ Len(at) = Len(SamplesAt(x))
                              /\ \A k \in 1..Len(at) :
                                    /\ at[k].fshs = shs[SamplesAt(x)[k]]
                                    /\ at[k].fsid = sid[SamplesAt(x)[k]]]_vars

\* A pass has stored the record of a later sample of the list before
\* that of an earlier one, the two in the order of their model times.
C29_Witness ==
    /\ prog = "sat" /\ pc \in {"files", "qc"} /\ t = 1 /\ c >= 2
    /\ f[1].ftime < f[2].ftime
    /\ \E i, j \in 1..Len(stime) :
          i < j /\ stime[i] = f[2].ftime /\ stime[j] = f[1].ftime

\* C30: in the mask that prepGridMask builds every cell is NaN, 0 or 1,
\* and every cell with 1, those of the first column too, is not land,
\* is at least as deep as the minimum depth and at least as far from the
\* coast as the minimum distance.
C30_ValidCellsQualify ==
    (prog = "prepGridMask" /\ pc = "done") =>
        \A i \in 1..Len(mask) : \A j \in 1..Len(mask[i]) :
           /\ IsNaN(mask[i][j]) \/ mask[i][j] = 0 \/ mask[i][j] = 1
           /\ mask[i][j] = 1 =>
                 /\ ~Excluded(i, j)
                 /\ ib[i][j] <= -MinDepth
                 /\ idfc[i][j] >= MinDfc

====
